---- MODULE Spec2Model ----
(***************************************************************************)
(* Model of the FDE job tracker backend (src/backend).                     *)
(*                                                                         *)
(*  Spec       the aggregation orchestrator, FDEJobScraper.run_daily_scrape *)
(*             (job_scraper.py), run repeatedly against one job table       *)
(*  SpecCall   one call of run_daily_scrape, its threads scheduled fairly    *)
(*  SpecDedup  FDEJobScraper._deduplicate_jobs as a pure function           *)
(*  SpecLLM    LLMSkillExtractor.extract_skills and extract_skills_for_job  *)
(*             (llm_skill_extractor.py) with the process-wide cache         *)
(*  SpecLLMFull    SpecLLM from a cache that is full or nearly full       *)
(*  SpecCache      threads inside _save_to_cache on the shared cache       *)
(*  SpecApi        the scrape endpoints of main.py and their background    *)
(*                 tasks                                                   *)
(*  SpecJobspy     run_jobspy_scrape (jobspy_scraper.py) and its progress   *)
(*                 callback                                                *)
(*  SpecRelevance  FDEJobScraper._calculate_relevance, in hundredths       *)
(*  SpecTaxonomy   SkillExtractor.extract_skills (skill_extractor.py)      *)
(*  SpecSections   JobSectionParser.parse_sections (skill_extractor.py)    *)
(*  SpecEngine     the three places that choose between the LLM extractor  *)
(*                 and the taxonomy matcher                                *)
(*                                                                         *)
(* Strings whose characters matter (URLs, titles, texts) are sequences of   *)
(* one-character strings.                                                  *)
(***************************************************************************)
EXTENDS Integers, Sequences, FiniteSets, TLC

VARIABLES
    \* ---- run_daily_scrape (job_scraper.py) ----
    run,             \* number of the current run_daily_scrape call
    phase,           \* position of the run: search, dedup, process, commit, freq, log, done
    results,         \* what each scraper's search_jobs does in this run (a list, or it raises)
    same_input,      \* the scrapers behave in this run exactly as in the previous one
    fut,             \* state of the future submitted for each scraper
    all_jobs,        \* all_jobs
    scraper_results, \* scraper_results
    unique_jobs,     \* unique_jobs
    idx,             \* number of listings of unique_jobs the loop has gone through
    saved_count,     \* saved_count
    added,           \* the Job objects handed to db.add in this run, in order
    errors,          \* "Error processing job" log entries of this run
    batch_committed, \* the Job rows committed by successful batch commits of this run
    final_failed,    \* the final db.commit() of this run raised
    sess,            \* SQLAlchemy session: state of its transaction
    pending,         \* SQLAlchemy session: objects added and not yet flushed
    store,           \* the jobs table: committed rows, in insertion order
    store0,          \* number of rows of the jobs table when the run started
    summary,         \* the dict run_daily_scrape returns
    scraper_log,     \* the ScraperLog rows _log_scraper_run writes in this run
    \* ---- _deduplicate_jobs on its own ----
    d_jobs,          \* argument
    d_unique,        \* return value
    d_pc,
    \* ---- llm_skill_extractor.py ----
    gemini_client,    \* gemini_client is not None
    anthropic_client, \* anthropic_client is not None
    use_cache,        \* LLMSkillExtractor.use_cache
    active_model,     \* LLMSkillExtractor.active_model ("none" for None)
    skill_cache,      \* _skill_cache: its items, in insertion order
    extraction_count, \* LLMSkillExtractor.extraction_count
    gemini_count,     \* LLMSkillExtractor.gemini_count
    claude_count,     \* LLMSkillExtractor.claude_count
    calls,            \* what each extraction call so far did, in order
    \* ---- run_jobspy_scrape (jobspy_scraper.py) ----
    j_pc,            \* position of the call: start, loop, done, raised
    j_input,         \* what scrape_jobs does: it raises, or the frame it returns
    j_table,         \* the job_url values of the jobs table
    j_idx,           \* number of rows of fde_jobs the loop has gone through
    j_pending,       \* job_url of the Job objects added and not yet committed
    j_results,       \* results
    j_progress,      \* the invocations of progress_callback so far, in order
    \* ---- _calculate_relevance on its own ----
    r_title,         \* argument title
    r_skills,        \* argument skills: the length of the list under each key
    r_score,         \* return value, in hundredths
    r_pc,
    \* ---- SkillExtractor.extract_skills on its own ----
    t_text,          \* argument text
    t_found,         \* return value: category -> sorted list of phrases
    t_pc,
    \* ---- JobSectionParser.parse_sections on its own ----
    s_text,          \* argument text
    s_boundaries,    \* boundaries after the sort: (start, end, section)
    s_contents,      \* the cleaned content of each match, in that order
    s_sections,      \* return value: section -> content
    s_pc,
    \* ---- the callers of the two skill extractors ----
    e_caller,        \* the function that extracts the skills of a description
    e_text,          \* the description
    e_use_llm,       \* argument use_llm of extract_skills_for_job
    e_available,     \* is_available() of the LLM extractor
    e_llm_result,    \* what LLMSkillExtractor.extract_skills returns if called
    e_consulted,     \* the extractors called
    e_skills,        \* the skills the caller goes on with
    e_pc,
    \* ---- threads inside extract_skills on the shared cache ----
    c_cache,         \* _skill_cache: its keys in insertion order
    c_threads,       \* per thread: where it is, its key, keys_to_remove, its result
    \* ---- the scrape endpoints of the API ----
    a_progress,      \* scrape_progress
    a_tasks,         \* the background tasks added, and how far each one is
    a_responses,     \* the responses of the trigger requests handled so far
    a_table          \* the job_url of the rows of the jobs table of the API

scrapeVars == <<run, phase, results, same_input, fut, all_jobs, scraper_results,
                unique_jobs, idx, saved_count, added, errors, batch_committed,
                final_failed, sess, pending, store, store0, summary,
                scraper_log>>
dedupVars == <<d_jobs, d_unique, d_pc>>
llmVars == <<gemini_client, anthropic_client, use_cache, active_model, skill_cache,
             extraction_count, gemini_count, claude_count, calls>>
jobspyVars == <<j_pc, j_input, j_table, j_idx, j_pending, j_results, j_progress>>
relevanceVars == <<r_title, r_skills, r_score, r_pc>>
\* the variables of the pure functions checked on their own
taxonomyVars == <<t_text, t_found, t_pc>>
sectionVars == <<s_text, s_boundaries, s_contents, s_sections, s_pc>>
engineVars ==
    <<e_caller, e_text, e_use_llm, e_available, e_llm_result, e_consulted,
      e_skills, e_pc>>
cacheVars == <<c_cache, c_threads>>
apiVars == <<a_progress, a_tasks, a_responses, a_table>>
pureVars == <<relevanceVars, taxonomyVars, sectionVars, engineVars>>
\* everything but the variables of run_daily_scrape
notScrape == <<dedupVars, llmVars, jobspyVars, pureVars, cacheVars, apiVars>>
\* everything but the variables of the _deduplicate_jobs harness
notDedup == <<scrapeVars, llmVars, jobspyVars, pureVars, cacheVars, apiVars>>
\* everything but the variables of llm_skill_extractor.py
notLLM == <<scrapeVars, dedupVars, jobspyVars, pureVars, cacheVars, apiVars>>
\* everything but the variables of run_jobspy_scrape
notJobspy == <<scrapeVars, dedupVars, llmVars, pureVars, cacheVars, apiVars>>
\* everything but the variables of the pure functions
notPure == <<scrapeVars, dedupVars, llmVars, jobspyVars, cacheVars, apiVars>>
\* everything but the variables of the threads on the shared cache
notCache == <<scrapeVars, dedupVars, llmVars, jobspyVars, pureVars, apiVars>>
\* everything but the variables of the scrape endpoints
notApi == <<scrapeVars, dedupVars, llmVars, jobspyVars, pureVars, cacheVars>>
\* everything but the variables of the _calculate_relevance harness
notRelevance == <<notPure, taxonomyVars, sectionVars, engineVars>>
\* everything but the variables of the SkillExtractor.extract_skills harness
notTaxonomy == <<notPure, relevanceVars, sectionVars, engineVars>>
\* everything but the variables of the JobSectionParser.parse_sections harness
notSections == <<notPure, relevanceVars, taxonomyVars, engineVars>>
\* everything but the variables of the callers of the skill extractors
notEngine == <<notPure, relevanceVars, taxonomyVars, sectionVars>>
vars == <<scrapeVars, dedupVars, llmVars, jobspyVars, pureVars, cacheVars, apiVars>>

-----------------------------------------------------------------------------
(* Bounds of the model *)

NumScrapers == 2
MaxRuns == 2
MaxJobs == 3
MaxCalls == 2
MaxRows == 3
MaxSkillCount == 8
MaxPieces == 3
MaxSectionPieces == 4
NumThreads == 2
MaxRequests == 3

(* Program constants *)

MaxWorkers == 3
BatchSize == 10
MaxCacheSize == 500
EvictCount == 100
MinDescriptionChars == 50
KeyChars == 2000
MaxTextChars == 6000

-----------------------------------------------------------------------------
(* Strings as sequences of characters *)

UpperLetters ==
    <<"A", "B", "C", "D", "E", "F", "G", "H", "I", "J", "K", "L", "M", "N",
      "O", "P", "Q", "R", "S", "T", "U", "V", "W", "X", "Y", "Z">>
LowerLetters ==
    <<"a", "b", "c", "d", "e", "f", "g", "h", "i", "j", "k", "l", "m", "n",
      "o", "p", "q", "r", "s", "t", "u", "v", "w", "x", "y", "z">>

\* The lower case of each upper case letter
LowerOf ==
    [c \in {UpperLetters[i] : i \in DOMAIN UpperLetters} |->
        LowerLetters[CHOOSE i \in DOMAIN UpperLetters : UpperLetters[i] = c]]

LowerChar(c) == IF c \in DOMAIN LowerOf THEN LowerOf[c] ELSE c

Lower(s) == [k \in 1..Len(s) |-> LowerChar(s[k])]

RECURSIVE RStrip(_, _)
RStrip(s, c) ==
    IF Len(s) > 0 /\ s[Len(s)] = c THEN RStrip(SubSeq(s, 1, Len(s) - 1), c) ELSE s

\* NormalizeUrl without the lowercasing
NormalizeUrlNoLower(u) == RStrip(u, "/")

\* job.job_url.lower().rstrip("/")
NormalizeUrl(u) == RStrip(Lower(u), "/")

SeqsUpTo(S, n) == UNION {[1..k -> S] : k \in 0..n}

Range(s) == {s[k] : k \in DOMAIN s}

-----------------------------------------------------------------------------
(* Listings, scrapers and what they return *)

\* self.scrapers, in list order (the first NumScrapers of them)
ScraperNames == <<"indeed", "linkedin", "greenhouse", "lever", "wellfound">>
Scrapers == 1..NumScrapers

NULL == "NULL"

\* The attributes JobListing.__init__ sets
JobListingAttrs ==
    {"title", "company", "location", "job_url", "apply_url", "source",
     "raw_description", "date_posted", "salary_range", "employment_type",
     "remote_status"}

\* hasattr(job_listing, name)
HasAttr(name) == name \in JobListingAttrs

\* What scraper.get_job_details(job_url) does for a listing's page
PageNone == [kind |-> "none", raw_description |-> ""]
PageRaises == [kind |-> "raise", raw_description |-> ""]
PageDict(text) == [kind |-> "dict", raw_description |-> text]

\* A listing as a scraper's search returns it, the source still to be stamped.
\* company NULL: a listing the jobs table rejects (Job.company is nullable=False).
Listing(url, desc, company, page) ==
    [job_url |-> url, source |-> "", raw_description |-> desc,
     company |-> company, page |-> page, title |-> "engineer"]

\* The same listing with title=None: _calculate_relevance(title, skills)
\* raises on title.lower()
Untitled(l) == [l EXCEPT !.title = NULL]

\* JobListing(..., source=self.name)
Stamp(feed, a) ==
    [k \in DOMAIN feed |-> [feed[k] EXCEPT !.source = ScraperNames[a]]]

UrlJ1 == <<"j", "1">>
UrlJ1Upper == <<"J", "1">>
UrlJ1Slash == <<"j", "1", "/">>
UrlJ2 == <<"j", "2">>
UrlJ3 == <<"j", "3">>

\* The short feeds a scraper's search may return
ShortFeeds ==
    { <<>>,
      << Listing(UrlJ1, "", "acme", PageDict("page text")) >>,
      << Listing(UrlJ1Upper, "listing text", "acme", PageNone) >>,
      << Listing(UrlJ2, "listing text", "acme", PageDict("")),
         Listing(UrlJ1Slash, "", "acme", PageRaises) >>,
      << Listing(UrlJ3, "", NULL, PageDict("page text")),
         Listing(UrlJ1Slash, "", "acme", PageRaises),
         Untitled(Listing(UrlJ2, "", "acme", PageNone)) >> }

\* A long feed: distinct URLs k/a, k/b, ...; the listing at position bad (if any)
\* has no company.
LongChars == <<"a", "b", "c", "d", "e", "f", "g", "h", "i", "m", "n", "o", "p">>
LongFeedLen == BatchSize + 2
LongFeed(bad) ==
    [k \in 1..LongFeedLen |->
        Listing(<<"k", "/", LongChars[k]>>, "", IF k = bad THEN NULL ELSE "acme",
                PageDict("page text"))]
LongFeeds == {LongFeed(0), LongFeed(3), LongFeed(BatchSize + 1)}

\* What one search_jobs call does: it raises, or it returns a list of listings
Raised == [raises |-> TRUE, jobs |-> <<>>]
Returned(feed) == [raises |-> FALSE, jobs |-> feed]

\* What the searches of one run do: every scraper raises or returns a short
\* feed, or the first scraper returns a long feed and each other one returns
\* nothing or raises.
SearchOutcomes ==
    LET short == [Scrapers -> {Raised} \cup {Returned(f) : f \in ShortFeeds}]
        long == {o \in [Scrapers -> {Raised, Returned(<<>>)}
                                      \cup {Returned(f) : f \in LongFeeds}] :
                    /\ o[1].jobs \in LongFeeds
                    /\ \A a \in Scrapers \ {1} : o[a].jobs = <<>>}
    IN  {[a \in Scrapers |-> [o[a] EXCEPT !.jobs = Stamp(o[a].jobs, a)]] :
            o \in short \cup long}

-----------------------------------------------------------------------------
(* FDEJobScraper (job_scraper.py) *)

\* _run_scraper: the scraper's search, an exception turned into []
RunScraper(a) == IF results[a].raises THEN <<>> ELSE results[a].jobs

\* ExtendJobs as an assignment: all_jobs = jobs
ExtendJobsAssign(all, jobs) == jobs

\* all_jobs.extend(jobs)
ExtendJobs(all, jobs) == all \o jobs

\* The loop of _deduplicate_jobs keeping the last listing of a URL
RECURSIVE DedupLoopKeepLast(_, _, _, _)
DedupLoopKeepLast(jobs, k, seen_urls, unique) ==
    IF k > Len(jobs) THEN unique
    ELSE LET url == NormalizeUrl(jobs[k].job_url)
         IN  IF url \notin seen_urls
             THEN DedupLoopKeepLast(jobs, k + 1, seen_urls \cup {url},
                                    Append(unique, jobs[k]))
             ELSE DedupLoopKeepLast(jobs, k + 1, seen_urls,
                    [m \in DOMAIN unique |->
                        IF NormalizeUrl(unique[m].job_url) = url THEN jobs[k]
                        ELSE unique[m]])

\* _deduplicate_jobs: the loop over jobs with seen_urls and unique
RECURSIVE DedupLoop(_, _, _, _)
DedupLoop(jobs, k, seen_urls, unique) ==
    IF k > Len(jobs) THEN unique
    ELSE LET url == NormalizeUrl(jobs[k].job_url)
         IN  IF url \notin seen_urls
             THEN DedupLoop(jobs, k + 1, seen_urls \cup {url}, Append(unique, jobs[k]))
             ELSE DedupLoop(jobs, k + 1, seen_urls, unique)

DeduplicateJobs(jobs) == DedupLoop(jobs, 1, {}, <<>>)

\* _get_job_details: the details of the scraper named by the listing's source
GetJobDetails(l) ==
    IF \E a \in Scrapers : ScraperNames[a] = l.source THEN l.page ELSE PageNone

\* raw_desc of _process_and_save_jobs (lines 157-161)
RawDesc(l, details) ==
    IF details.kind = "dict" /\ details.raw_description # ""
    THEN details.raw_description
    ELSE IF HasAttr("description") /\ l.raw_description # ""
         THEN l.raw_description
         ELSE ""

\* Job(...): the columns of the row the model keeps
JobRow(l, raw_desc) ==
    [job_url |-> l.job_url, source |-> l.source, raw_description |-> raw_desc,
     company |-> l.company]

\* db.query(Job).filter(Job.job_url == url).first() is not None: with
\* autoflush=False the query sees the table's rows only
Existing(url) == \E k \in DOMAIN store : store[k].job_url = url

\* A flush INSERTs the pending rows; the table rejects a row without a company
FlushOk(rows) == \A k \in DOMAIN rows : rows[k].company # NULL

\* saved_count % 10 == 0
BatchDue(n) == n % BatchSize = 0

\* RolledBack undoing the batches the run committed as well
RolledBackToStart(rows, n0) == SubSeq(rows, 1, n0)

\* The table after a rollback of the session's transaction: committed rows stay
\* (rows: the table, n0: its number of rows when the run started)
RolledBack(rows, n0) == rows

-----------------------------------------------------------------------------
(* The state of each part while another part is looked at *)

NoSummary == [total_found |-> -1, unique_jobs |-> -1, saved_jobs |-> -1]
NoResult == [seen |-> FALSE, found |-> 0, errors |-> 0]
NoLog == [a \in {} |-> 0]

\* No run_daily_scrape call has been made
ScrapeIdle ==
    /\ run = 0
    /\ phase = "idle"
    /\ results = [a \in Scrapers |-> Raised]
    /\ same_input = FALSE
    /\ fut = [a \in Scrapers |-> "collected"]
    /\ all_jobs = <<>>
    /\ scraper_results = [a \in Scrapers |-> NoResult]
    /\ unique_jobs = <<>>
    /\ idx = 0
    /\ saved_count = 0
    /\ added = <<>>
    /\ errors = <<>>
    /\ batch_committed = <<>>
    /\ final_failed = FALSE
    /\ sess = "closed"
    /\ pending = <<>>
    /\ store = <<>>
    /\ store0 = 0
    /\ summary = NoSummary
    /\ scraper_log = NoLog

\* _deduplicate_jobs is not being called on its own
DedupIdle ==
    /\ d_jobs = <<>>
    /\ d_unique = <<>>
    /\ d_pc = "idle"

\* No API key is set: no client, the extractor disabled, nothing cached
LLMIdle ==
    /\ gemini_client = FALSE
    /\ anthropic_client = FALSE
    /\ use_cache = TRUE
    /\ active_model = "none"
    /\ skill_cache = <<>>
    /\ extraction_count = 0
    /\ gemini_count = 0
    /\ claude_count = 0
    /\ calls = <<>>

\* run_jobspy_scrape has not been called
JobspyIdle ==
    /\ j_pc = "idle"
    /\ j_input = [raises |-> FALSE, titled |-> TRUE, rows |-> <<>>]
    /\ j_table = {}
    /\ j_idx = 0
    /\ j_pending = <<>>
    /\ j_results = [status |-> "idle", jobs_found |-> 0, jobs_added |-> 0,
                    jobs_skipped |-> 0, errors |-> 0]
    /\ j_progress = <<>>

\* _calculate_relevance is not being called on its own
RelevanceIdle ==
    /\ r_pc = "idle"
    /\ r_title = <<>>
    /\ r_skills = <<>>
    /\ r_score = 0

\* None of the pure functions is being called on its own
\* SkillExtractor.extract_skills is not being called on its own
TaxonomyIdle ==
    /\ t_pc = "idle"
    /\ t_text = <<>>
    /\ t_found = <<>>

\* JobSectionParser.parse_sections is not being called on its own
SectionsIdle ==
    /\ s_pc = "idle"
    /\ s_text = <<>>
    /\ s_boundaries = <<>>
    /\ s_contents = <<>>
    /\ s_sections = <<>>

\* No caller of the skill extractors is being followed
EngineIdle ==
    /\ e_pc = "idle"
    /\ e_caller = "none"
    /\ e_text = <<>>
    /\ e_use_llm = FALSE
    /\ e_available = FALSE
    /\ e_llm_result = <<>>
    /\ e_consulted = {}
    /\ e_skills = <<>>

\* No thread is followed through the shared cache
CacheIdle ==
    /\ c_cache = <<>>
    /\ c_threads = <<>>

\* No request has reached the scrape endpoints
ApiIdle ==
    /\ a_progress = [status |-> "idle", step |-> [text |-> "", args |-> <<>>],
                     progress |-> 0, total |-> 0, jobs_found |-> 0,
                     jobs_added |-> 0, current_job |-> ""]
    /\ a_tasks = <<>>
    /\ a_responses = <<>>
    /\ a_table = {}

PureIdle ==
    RelevanceIdle /\ TaxonomyIdle /\ SectionsIdle /\ EngineIdle /\ CacheIdle /\ ApiIdle

-----------------------------------------------------------------------------
(* run_daily_scrape, step by step *)

\* The state in which a run starts, the searches doing what outcomes says
BeginRun(outcomes) ==
    /\ results' = outcomes
    /\ phase' = "search"
    /\ fut' = [a \in Scrapers |-> "submitted"]
    /\ all_jobs' = <<>>
    /\ scraper_results' = [a \in Scrapers |-> NoResult]
    /\ unique_jobs' = <<>>
    /\ idx' = 0
    /\ saved_count' = 0
    /\ added' = <<>>
    /\ errors' = <<>>
    /\ batch_committed' = <<>>
    /\ final_failed' = FALSE
    /\ sess' = "closed"
    /\ pending' = <<>>
    /\ summary' = NoSummary
    /\ scraper_log' = NoLog

\* The pool runs at most max_workers=3 submitted calls at a time, in the order
\* of submission: a call is running once fewer than MaxWorkers calls submitted
\* before it are unfinished.
Running(a) ==
    /\ fut[a] = "submitted"
    /\ Cardinality({b \in Scrapers : b < a /\ fut[b] = "submitted"}) < MaxWorkers

\* A worker thread finishes _run_scraper for scraper a
Finish(a) ==
    /\ phase = "search"
    /\ Running(a)
    /\ fut' = [fut EXCEPT ![a] = "finished"]
    /\ UNCHANGED <<run, phase, results, same_input, all_jobs, scraper_results,
                   unique_jobs, idx, saved_count, added, errors, batch_committed,
                   final_failed, sess, pending, store, store0, summary,
                scraper_log>>
    /\ UNCHANGED notScrape

\* One iteration of `for future in as_completed(futures)`: as_completed yields
\* the futures already finished in no particular order, the others as they
\* finish. future.result() is _run_scraper's return value.
Collect(a) ==
    /\ phase = "search"
    /\ fut[a] = "finished"
    /\ LET jobs == RunScraper(a)
           old == scraper_results[a]
       IN  /\ all_jobs' = ExtendJobs(all_jobs, jobs)
           /\ scraper_results' =
                [scraper_results EXCEPT
                    ![a] = [seen |-> TRUE, found |-> old.found + Len(jobs),
                            errors |-> old.errors]]
    /\ fut' = [fut EXCEPT ![a] = "collected"]
    /\ phase' = IF \A b \in Scrapers : fut'[b] = "collected" THEN "dedup" ELSE "search"
    /\ UNCHANGED <<run, results, same_input, unique_jobs, idx, saved_count, added,
                   errors, batch_committed, final_failed, sess, pending, store,
                   store0, summary,
                   scraper_log>>
    /\ UNCHANGED notScrape

\* unique_jobs = self._deduplicate_jobs(all_jobs); _process_and_save_jobs opens
\* its session
Dedup ==
    /\ phase = "dedup"
    /\ unique_jobs' = DeduplicateJobs(all_jobs)
    /\ sess' = "active"
    /\ phase' = "process"
    /\ UNCHANGED <<run, results, same_input, fut, all_jobs, scraper_results, idx,
                   saved_count, added, errors, batch_committed, final_failed,
                   pending, store, store0, summary,
                   scraper_log>>
    /\ UNCHANGED notScrape

LogError(k, what) == errors' = Append(errors, [listing |-> k, what |-> what])

\* One iteration of the loop of _process_and_save_jobs over unique_jobs
ProcessListing ==
    /\ phase = "process"
    /\ idx < Len(unique_jobs)
    /\ idx' = idx + 1
    /\ LET l == unique_jobs[idx + 1]
           details == GetJobDetails(l)
           job == JobRow(l, RawDesc(l, details))
           rows == Append(pending, job)
       IN  IF sess = "inactive"
           THEN \* the query raises: the transaction needs a rollback first
                /\ LogError(idx + 1, "query")
                /\ UNCHANGED <<saved_count, added, batch_committed, sess, pending, store>>
           ELSE IF Existing(l.job_url)
           THEN UNCHANGED <<saved_count, added, errors, batch_committed, sess,
                            pending, store>>
           ELSE IF details.kind = "raise"
           THEN /\ LogError(idx + 1, "details")
                /\ UNCHANGED <<saved_count, added, batch_committed, sess, pending, store>>
           ELSE IF l.title = NULL
           THEN \* Job(..., relevance_score=self._calculate_relevance(...)) raises
                /\ LogError(idx + 1, "extract")
                /\ UNCHANGED <<saved_count, added, batch_committed, sess, pending, store>>
           ELSE /\ added' = Append(added, job)
                /\ saved_count' = saved_count + 1
                /\ IF ~BatchDue(saved_count + 1)
                   THEN /\ pending' = rows
                        /\ UNCHANGED <<errors, batch_committed, sess, store>>
                   ELSE IF FlushOk(rows)
                   THEN /\ store' = store \o rows
                        /\ batch_committed' = batch_committed \o rows
                        /\ pending' = <<>>
                        /\ UNCHANGED <<errors, sess>>
                   ELSE \* the flush fails: the transaction is rolled back, the
                        \* new objects are expunged and the session wants a
                        \* rollback() before its next use
                        /\ LogError(idx + 1, "commit")
                        /\ pending' = <<>>
                        /\ sess' = "inactive"
                        /\ UNCHANGED <<batch_committed, store>>
    /\ UNCHANGED <<run, phase, results, same_input, fut, all_jobs, scraper_results,
                   unique_jobs, final_failed, store0, summary,
                   scraper_log>>
    /\ UNCHANGED notScrape

\* A failed final commit that leaves _process_and_save_jobs as an exception
AfterFinalCommitUncaught(ok) == IF ok THEN "freq" ELSE "raised"

\* Where run_daily_scrape goes after the final commit: `except Exception`
\* catches a failed commit, so _update_skill_frequencies is next either way
AfterFinalCommit(ok) == "freq"

\* The final db.commit(), its except branch (rollback) and db.close()
FinalCommit ==
    /\ phase = "process"
    /\ idx = Len(unique_jobs)
    /\ IF sess = "active" /\ FlushOk(pending)
       THEN /\ store' = store \o pending
            /\ final_failed' = FALSE
       ELSE /\ store' = RolledBack(store, store0)
            /\ final_failed' = TRUE
    /\ pending' = <<>>
    /\ sess' = "closed"
    /\ phase' = AfterFinalCommit(sess = "active" /\ FlushOk(pending))
    /\ UNCHANGED <<run, results, same_input, fut, all_jobs, scraper_results,
                   unique_jobs, idx, saved_count, added, errors, batch_committed,
                   store0, summary,
                   scraper_log>>
    /\ UNCHANGED notScrape

\* _update_skill_frequencies: reads the jobs table, writes the skill table
UpdateSkillFrequencies ==
    /\ phase = "freq"
    /\ phase' = "log"
    /\ UNCHANGED <<run, results, same_input, fut, all_jobs, scraper_results,
                   unique_jobs, idx, saved_count, added, errors, batch_committed,
                   final_failed, sess, pending, store, store0, summary,
                scraper_log>>
    /\ UNCHANGED notScrape

\* jobs_added=saved_count // len(results)
JobsAdded(saved, sources) == saved \div Cardinality(sources)

\* _log_scraper_run and the return of run_daily_scrape
LogAndReturn ==
    /\ phase = "log"
    /\ phase' = "done"
    /\ LET sources == {a \in Scrapers : scraper_results[a].seen}
       IN  scraper_log' =
                [a \in sources |->
                    [jobs_found |-> scraper_results[a].found,
                     jobs_added |-> JobsAdded(saved_count, sources),
                     errors |-> scraper_results[a].errors]]
    /\ summary' = [total_found |-> Len(all_jobs), unique_jobs |-> Len(unique_jobs),
                   saved_jobs |-> saved_count]
    /\ UNCHANGED <<run, results, same_input, fut, all_jobs, scraper_results,
                   unique_jobs, idx, saved_count, added, errors, batch_committed,
                   final_failed, sess, pending, store, store0>>
    /\ UNCHANGED notScrape

\* The next run_daily_scrape call against the same table
StartRun ==
    /\ phase = "done"
    /\ run < MaxRuns
    /\ run' = run + 1
    /\ store0' = Len(store)
    /\ \E outcomes \in SearchOutcomes :
         /\ BeginRun(outcomes)
         /\ same_input' = (outcomes = results)
    /\ UNCHANGED store
    /\ UNCHANGED notScrape

\* The first call of run_daily_scrape starts, the jobs table being one of tables
FirstRun(tables) ==
    /\ run = 1
    /\ same_input = FALSE
    /\ store \in tables
    /\ store0 = Len(store)
    /\ results \in SearchOutcomes
    /\ phase = "search"
    /\ fut = [a \in Scrapers |-> "submitted"]
    /\ all_jobs = <<>>
    /\ scraper_results = [a \in Scrapers |-> NoResult]
    /\ unique_jobs = <<>>
    /\ idx = 0
    /\ saved_count = 0
    /\ added = <<>>
    /\ errors = <<>>
    /\ batch_committed = <<>>
    /\ final_failed = FALSE
    /\ sess = "closed"
    /\ pending = <<>>
    /\ summary = NoSummary
    /\ scraper_log = NoLog
    /\ DedupIdle
    /\ LLMIdle
    /\ JobspyIdle
    /\ PureIdle

Init == FirstRun({<<>>})

Next ==
    \/ \E a \in Scrapers : Finish(a)
    \/ \E a \in Scrapers : Collect(a)
    \/ Dedup
    \/ ProcessListing
    \/ FinalCommit
    \/ UpdateSkillFrequencies
    \/ LogAndReturn
    \/ StartRun

Spec == Init /\ [][Next]_vars

-----------------------------------------------------------------------------
(* One call of run_daily_scrape, which keeps running: SpecCall *)

\* The jobs table before the call: empty, or holding a row of an earlier run
Tables ==
    { <<>>,
      << [job_url |-> UrlJ1, source |-> ScraperNames[1],
          raw_description |-> "page text", company |-> "acme"] >> }

InitCall == FirstRun(Tables)

\* A step of the run_daily_scrape call under way
RunStep ==
    \/ \E a \in Scrapers : Finish(a)
    \/ \E a \in Scrapers : Collect(a)
    \/ Dedup
    \/ ProcessListing
    \/ FinalCommit
    \/ UpdateSkillFrequencies
    \/ LogAndReturn

\* The threads of the call are scheduled as long as they can take a step
SpecCall == InitCall /\ [][RunStep]_vars /\ WF_vars(RunStep)

-----------------------------------------------------------------------------
(* _deduplicate_jobs as a pure function: SpecDedup *)

UrlJ1Slashes == <<"j", "1", "/", "/">>
UrlSlash == <<"/">>
UrlEmpty == <<>>

\* The listings _deduplicate_jobs is applied to: URLs that differ by case, by
\* trailing slashes or really, each from two sources
DedupListings ==
    {[Listing(u, "", "acme", PageNone) EXCEPT !.source = ScraperNames[a]] :
        u \in {UrlJ1, UrlJ1Upper, UrlJ1Slash, UrlJ1Slashes, UrlJ2, UrlSlash, UrlEmpty},
        a \in {1, 2}}

InitDedup ==
    /\ ScrapeIdle
    /\ LLMIdle
    /\ JobspyIdle
    /\ PureIdle
    /\ d_jobs \in SeqsUpTo(DedupListings, MaxJobs)
    /\ d_unique = <<>>
    /\ d_pc = "call"

DedupCall ==
    /\ d_pc = "call"
    /\ d_unique' = DeduplicateJobs(d_jobs)
    /\ d_pc' = "return"
    /\ UNCHANGED d_jobs
    /\ UNCHANGED notDedup

NextDedup == DedupCall

SpecDedup == InitDedup /\ [][NextDedup]_vars

-----------------------------------------------------------------------------
(* LLMSkillExtractor (llm_skill_extractor.py): SpecLLM *)

\* A text is a sequence of runs: Run(c, n) is the character c repeated n
\* times, and neighbouring runs hold different characters
Run(c, n) == [c |-> c, n |-> n]

\* len(text)
RECURSIVE TextLen(_)
TextLen(t) == IF t = <<>> THEN 0 ELSE t[1].n + TextLen(Tail(t))

\* text[:n]
RECURSIVE Take(_, _)
Take(t, n) ==
    IF t = <<>> \/ n <= 0 THEN <<>>
    ELSE IF t[1].n <= n THEN <<t[1]>> \o Take(Tail(t), n - t[1].n)
    ELSE <<Run(t[1].c, n)>>

\* Job descriptions: the empty one, two that agree on their first KeyChars
\* characters (the second is longer than MaxTextChars), and one that
\* differs from them at character KeyChars
TextEmpty == <<>>
TextLong == <<Run("a", KeyChars), Run("x", 5)>>
TextHuge == <<Run("a", KeyChars), Run("y", MaxTextChars)>>
TextOther == <<Run("a", KeyChars - 1), Run("x", 6)>>
Texts == {TextEmpty, TextLong, TextHuge, TextOther}

\* SKILL_CATEGORIES.keys(), in order, and the spelling of each key
SkillCategoryOrder ==
    <<"ai_ml", "backend", "frontend", "cloud", "databases", "tools",
      "soft_skills", "fde_specific", "data_pipelines", "other">>
SkillCategories == Range(SkillCategoryOrder)
CategoryChars ==
    { <<"a", "i", "_", "m", "l">>,
      <<"b", "a", "c", "k", "e", "n", "d">>,
      <<"f", "r", "o", "n", "t", "e", "n", "d">>,
      <<"c", "l", "o", "u", "d">>,
      <<"d", "a", "t", "a", "b", "a", "s", "e", "s">>,
      <<"t", "o", "o", "l", "s">>,
      <<"s", "o", "f", "t", "_", "s", "k", "i", "l", "l", "s">>,
      <<"f", "d", "e", "_", "s", "p", "e", "c", "i", "f", "i", "c">>,
      <<"d", "a", "t", "a", "_", "p", "i", "p", "e", "l", "i", "n", "e", "s">>,
      <<"o", "t", "h", "e", "r">> }

\* ALL_SKILLS.keys() of the taxonomy matcher
TaxonomyCategories ==
    {"ai_ml", "programming", "cloud_devops", "soft_skills", "fde_specific",
     "data_pipelines"}

\* {cat: [] for cat in SKILL_CATEGORIES.keys()}
AllEmpty == [cat \in SkillCategories |-> <<>>]

\* SkillExtractor.extract_skills on a text of Texts: these hold the letters
\* a, x and y only, so no taxonomy phrase occurs and every list is empty
TaxonomyExtract(text) == [cat \in TaxonomyCategories |-> <<>>]

\* The key built from the whole text instead of its first KeyChars characters
CacheKeyWholeText(text) == text

\* _get_cache_key: md5 of text[:2000]; the digest is taken as injective
CacheKey(text) == Take(text, KeyChars)

\* text[:6000] if len(text) > 6000 else text
Truncate(text) ==
    IF TextLen(text) > MaxTextChars THEN Take(text, MaxTextChars) ELSE text

\* _skill_cache is a dict: a sequence of entries in insertion order
Miss == [found |-> FALSE, value |-> AllEmpty]

\* _get_from_cache, followed by the truth test on what it returned
GetFromCache(text) ==
    IF ~use_cache THEN Miss
    ELSE LET key == CacheKey(text)
             at == {k \in DOMAIN skill_cache : skill_cache[k].key = key}
         IN  IF at = {} THEN Miss
             ELSE [found |-> TRUE, value |-> skill_cache[CHOOSE k \in at : TRUE].value]

\* An eviction that starts only above MaxCacheSize
EvictedAboveCapacity(cache) ==
    IF Len(cache) > MaxCacheSize
    THEN SubSeq(cache, EvictCount + 1, Len(cache))
    ELSE cache

\* The eviction of the first EvictCount keys once MaxCacheSize is reached
Evicted(cache) ==
    IF Len(cache) >= MaxCacheSize
    THEN SubSeq(cache, EvictCount + 1, Len(cache))
    ELSE cache

\* _skill_cache[key] = skills: a key already present keeps its place
Put(cache, key, value) ==
    IF \E k \in DOMAIN cache : cache[k].key = key
    THEN [k \in DOMAIN cache |->
            IF cache[k].key = key THEN [key |-> key, value |-> value] ELSE cache[k]]
    ELSE Append(cache, [key |-> key, value |-> value])

\* _save_to_cache
SaveToCache(cache, text, skills) ==
    IF ~use_cache THEN cache ELSE Put(Evicted(cache), CacheKey(text), skills)

\* JSON values
JString(chars) == [type |-> "string", chars |-> chars]
JNumber(n) == [type |-> "number", num |-> n]
JArray(items) == [type |-> "array", items |-> items]
JObject(fields) == [type |-> "object", fields |-> fields]
JNull == [type |-> "null"]

\* What a provider's response text holds: nothing, white space only, prose
\* without JSON, or the serialisation of a JSON value, bare ("plain"),
\* inside a ``` fence, or in the middle of a sentence ("prose")
NoContent == [form |-> "none", value |-> JNull]
ContentEmpty == [form |-> "empty", value |-> JNull]
ContentBlank == [form |-> "blank", value |-> JNull]
ContentGarbage == [form |-> "garbage", value |-> JNull]
ContentPlain(v) == [form |-> "plain", value |-> v]
ContentFence(v) == [form |-> "fence", value |-> v]
ContentProse(v) == [form |-> "prose", value |-> v]

\* {"backend": ["Py", "py "], "cloud": ["k", " "], "tools": "c", "extra": ["b"]}
GoodObject ==
    JObject([backend |-> JArray(<<JString(<<"P", "y">>), JString(<<"p", "y", " ">>)>>),
             cloud |-> JArray(<<JString(<<"k">>), JString(<<" ">>)>>),
             tools |-> JString(<<"c">>),
             extra |-> JArray(<<JString(<<"b">>)>>)])
\* {"backend": [1]}
NumberItemObject == JObject([backend |-> JArray(<<JNumber(1)>>)])
\* []
EmptyArray == JArray(<<>>)
\* [{"backend": ["Py", "py "], "cloud": ["k", " "], "tools": "c", "extra": ["b"]}]
ObjectInArray == JArray(<<GoodObject>>)
\* "c"
PlainString == JString(<<"c">>)

\* What one provider request does: the request raises, the response comes
\* back but reading its text raises, or the response text is read
RequestRaises == [kind |-> "raise", content |-> NoContent]
TextUnreadable == [kind |-> "unreadable", content |-> NoContent]
TextIs(content) == [kind |-> "text", content |-> content]
ProviderOutcomes ==
    {RequestRaises, TextUnreadable}
      \cup {TextIs(c) : c \in {ContentEmpty, ContentGarbage,
                               ContentFence(GoodObject),
                               ContentPlain(NumberItemObject),
                               ContentPlain(EmptyArray),
                               ContentPlain(ObjectInArray),
                               ContentPlain(PlainString)}}

\* The serialisation of v holds a brace: v is an object or an array with
\* an object somewhere inside (the strings of the model hold no braces)
RECURSIVE HoldsObject(_)
HoldsObject(v) ==
    CASE v.type = "object" -> TRUE
      [] v.type = "array" -> \E i \in DOMAIN v.items : HoldsObject(v.items[i])
      [] OTHER -> FALSE

\* json.loads of content[content.find("{") : content.rfind("}") + 1] for a
\* text around the serialisation of v, which holds a brace: the object
\* itself, the only object of an array, and a JSONDecodeError when the cut
\* spans several items of an array
RECURSIVE BraceCut(_)
BraceCut(v) ==
    IF v.type = "object" THEN [ok |-> TRUE, value |-> v]
    ELSE LET holders == {i \in DOMAIN v.items : HoldsObject(v.items[i])}
         IN  IF Cardinality(holders) = 1
             THEN BraceCut(v.items[CHOOSE i \in holders : TRUE])
             ELSE [ok |-> FALSE, value |-> JNull]

\* content.strip(), the removal of the fence, the cut to the outermost
\* braces of a text that does not start with one, and json.loads: ok is
\* FALSE when json.loads raises JSONDecodeError
Decode(content) ==
    CASE content.form \in {"plain", "fence"} ->
            IF content.value.type # "object" /\ HoldsObject(content.value)
            THEN BraceCut(content.value)
            ELSE [ok |-> TRUE, value |-> content.value]
      [] content.form = "prose" ->
            IF HoldsObject(content.value) THEN BraceCut(content.value)
            ELSE [ok |-> FALSE, value |-> JNull]
      [] OTHER -> [ok |-> FALSE, value |-> JNull]

\* s.lower().strip() on the items of one list, keeping first occurrences
RECURSIVE LStrip(_, _)
LStrip(s, c) == IF s # <<>> /\ Head(s) = c THEN LStrip(Tail(s), c) ELSE s
Strip(s) == LStrip(RStrip(s, " "), " ")

\* The loop without its test on seen
RECURSIVE NormalizeLoopKeepAll(_, _, _)
NormalizeLoopKeepAll(items, k, out) ==
    IF k > Len(items) THEN out
    ELSE LET s_lower == Strip(Lower(items[k].chars))
         IN  NormalizeLoopKeepAll(items, k + 1,
                 IF s_lower # <<>> THEN Append(out, s_lower) ELSE out)

RECURSIVE NormalizeLoop(_, _, _)
NormalizeLoop(items, k, out) ==
    IF k > Len(items) THEN out
    ELSE LET s_lower == Strip(Lower(items[k].chars))
         IN  NormalizeLoop(items, k + 1,
                 IF s_lower # <<>> /\ s_lower \notin Range(out)
                 THEN Append(out, s_lower) ELSE out)

\* category in skills and isinstance(skills[category], list)
IsList(skills, category) ==
    /\ category \in DOMAIN skills.fields
    /\ skills.fields[category].type = "array"

\* sub in s, for two str
IsSubstring(sub, s) ==
    \E k \in 0..(Len(s) - Len(sub)) : SubSeq(s, k + 1, k + Len(sub)) = sub

\* Whether the normalisation loop runs to its end: it raises on an item
\* that is no string, on a list that holds a category name, on a str that
\* a category name is a substring of, and on a value that is neither dict,
\* list nor str
NormalizeOk(skills) ==
    CASE skills.type = "object" ->
            \A cat \in SkillCategories :
                IsList(skills, cat) =>
                    \A i \in DOMAIN skills.fields[cat].items :
                        skills.fields[cat].items[i].type = "string"
      [] skills.type = "array" ->
            \A i \in DOMAIN skills.items :
                ~(skills.items[i].type = "string"
                    /\ skills.items[i].chars \in CategoryChars)
      [] skills.type = "string" ->
            \A cat \in CategoryChars : ~IsSubstring(cat, skills.chars)
      [] OTHER -> FALSE

\* The mapping the normalisation loop builds when it runs to its end
Normalize(skills) ==
    [cat \in SkillCategories |->
        IF skills.type = "object" /\ IsList(skills, cat)
        THEN NormalizeLoop(skills.fields[cat].items, 1, <<>>)
        ELSE <<>>]

\* Whether the result for that response text reaches _save_to_cache
Parsed(content) ==
    /\ content.form \notin {"none", "empty"}
    /\ Decode(content).ok
    /\ NormalizeOk(Decode(content).value)

\* What extract_skills returns for a response text it has received
ResultOf(content) ==
    IF Parsed(content) THEN Normalize(Decode(content).value) ELSE AllEmpty

\* The provider tried first, and the one tried after it has raised
Primary ==
    IF active_model = "gemini" /\ gemini_client THEN "gemini"
    ELSE IF anthropic_client THEN "claude"
    ELSE "none"
Fallback ==
    IF active_model = "gemini" /\ anthropic_client THEN "claude"
    ELSE IF active_model = "claude" /\ gemini_client THEN "gemini"
    ELSE "none"

\* is_available
IsAvailable == active_model # "none"

\* _extract_with_gemini / _extract_with_claude: the counter is incremented
\* once the request has returned, before the response text is read
Attempt(provider, sent, o) ==
    [provider |-> provider, sent |-> sent, outcome |-> o.kind,
     response |-> o.content, counted |-> o.kind # "raise"]

Counted(attempts, provider) ==
    Cardinality({k \in DOMAIN attempts :
                    attempts[k].provider = provider /\ attempts[k].counted})

CallRecord(text, hit, attempts, result, stored, taxonomy) ==
    [text |-> text, hit |-> hit, attempts |-> attempts,
     result |-> result, stored |-> stored, taxonomy |-> taxonomy]

\* extract_skills(text); o1 and o2 are what the first and the second
\* provider request of the call do, when they are made. calls is the log
\* of the calls made to extract_skills and to the taxonomy matcher
ExtractSkillsBody(text, o1, o2) ==
    LET cached == GetFromCache(text)
        sent == Truncate(text)
        second == IF o1.kind # "text" THEN Fallback ELSE "none"
        attempts ==
            IF Primary = "none" THEN <<>>
            ELSE <<Attempt(Primary, sent, o1)>>
                    \o (IF second # "none" THEN <<Attempt(second, sent, o2)>> ELSE <<>>)
        content ==
            IF attempts = <<>> THEN NoContent
            ELSE attempts[Len(attempts)].response
        ok == Parsed(content)
        result == ResultOf(content)
    IN
    IF ~IsAvailable \/ text = TextEmpty
    THEN /\ calls' = Append(calls, CallRecord(text, FALSE, <<>>, AllEmpty, FALSE, FALSE))
         /\ UNCHANGED <<skill_cache, extraction_count, gemini_count, claude_count>>
    ELSE IF cached.found
    THEN /\ calls' = Append(calls, CallRecord(text, TRUE, <<>>, cached.value, FALSE, FALSE))
         /\ UNCHANGED <<skill_cache, extraction_count, gemini_count, claude_count>>
    ELSE /\ gemini_count' = gemini_count + Counted(attempts, "gemini")
         /\ claude_count' = claude_count + Counted(attempts, "claude")
         /\ extraction_count' =
                IF content.form \notin {"none", "empty"}
                THEN extraction_count + 1 ELSE extraction_count
         /\ skill_cache' = IF ok THEN SaveToCache(skill_cache, sent, result) ELSE skill_cache
         /\ calls' = Append(calls,
                CallRecord(text, FALSE, attempts, result, ok /\ use_cache, FALSE))

\* A call of extract_skills with every behaviour of the providers it asks
ExtractSkillsCall(text) ==
    \E o1 \in ProviderOutcomes :
        \E o2 \in (IF o1.kind # "text" /\ Fallback # "none"
                    THEN ProviderOutcomes ELSE {o1}) :
            ExtractSkillsBody(text, o1, o2)

ExtractSkills ==
    /\ Len(calls) < MaxCalls
    /\ \E text \in Texts : ExtractSkillsCall(text)
    /\ UNCHANGED <<gemini_client, anthropic_client, use_cache, active_model>>
    /\ UNCHANGED notLLM

\* extract_skills_for_job(text, use_llm), which goes through the module's
\* own extractor, built with use_cache = True
ExtractSkillsForJob ==
    /\ Len(calls) < MaxCalls
    /\ use_cache
    /\ \E text \in Texts : \E use_llm \in BOOLEAN :
            IF use_llm /\ IsAvailable
            THEN ExtractSkillsCall(text)
            ELSE /\ calls' = Append(calls,
                        CallRecord(text, FALSE, <<>>, TaxonomyExtract(text), FALSE, TRUE))
                 /\ UNCHANGED <<skill_cache, extraction_count, gemini_count, claude_count>>
    /\ UNCHANGED <<gemini_client, anthropic_client, use_cache, active_model>>
    /\ UNCHANGED notLLM

\* The module after import and LLMSkillExtractor.__init__(use_cache)
InitLLM ==
    /\ ScrapeIdle
    /\ DedupIdle
    /\ JobspyIdle
    /\ PureIdle
    /\ gemini_client \in BOOLEAN
    /\ anthropic_client \in BOOLEAN
    /\ use_cache \in BOOLEAN
    /\ active_model = IF gemini_client THEN "gemini"
                      ELSE IF anthropic_client THEN "claude" ELSE "none"
    /\ skill_cache = <<>>
    /\ extraction_count = 0
    /\ gemini_count = 0
    /\ claude_count = 0
    /\ calls = <<>>

NextLLM ==
    \/ ExtractSkills
    \/ ExtractSkillsForJob

SpecLLM == InitLLM /\ [][NextLLM]_vars

\* _skill_cache after n earlier extractions, oldest first: the entry of
\* first_text, then those of the texts "k" * 2 .. "k" * n
FilledSkillCache(n, first_text) ==
    [k \in 1..n |->
        [key |-> IF k = 1 THEN CacheKey(first_text) ELSE <<Run("k", k)>>,
         value |-> AllEmpty]]

\* The text "k", whose entry is the oldest one unless TextLong's is
TextFirst == <<Run("k", 1)>>

\* A process whose cache is full or one entry short of it, with Gemini
\* configured: SpecLLMFull
InitLLMFull ==
    /\ ScrapeIdle
    /\ DedupIdle
    /\ JobspyIdle
    /\ PureIdle
    /\ gemini_client = TRUE
    /\ anthropic_client = FALSE
    /\ use_cache = TRUE
    /\ active_model = "gemini"
    /\ skill_cache \in {FilledSkillCache(MaxCacheSize - d, first) :
                            d \in 0..1, first \in {TextFirst, TextLong}}
    /\ extraction_count = 0
    /\ gemini_count = 0
    /\ claude_count = 0
    /\ calls = <<>>

SpecLLMFull == InitLLMFull /\ [][NextLLM]_vars

-----------------------------------------------------------------------------
(* run_jobspy_scrape (jobspy_scraper.py): SpecJobspy *)

\* A row of the frame scrape_jobs returns: its job_url ("nan" for a missing
\* one), whether its title holds one of fde_keywords, and whether building
\* the Job from it raises (a min_amount that int() rejects, for instance)
JRow(url, fde, bad) == [job_url |-> url, fde |-> fde, bad |-> bad]
JUrls == {"nan", "u1", "u2"}
JRows == {JRow(u, f, b) : u \in JUrls, f \in BOOLEAN, b \in BOOLEAN}

\* jobs_df[jobs_df['title'].str.lower().str.contains(...)]
FdeJobs(rows) == SelectSeq(rows, LAMBDA r : r.fde)

\* The percentage without the division by total_fde
ProgressPctUnscaled(i, total_fde) == 30 + (i + 1) * 60

\* progress_pct = 30 + int((idx + 1) / total_fde * 60)
ProgressPct(i, total_fde) == 30 + ((i + 1) * 60) \div total_fde

\* update_progress(step, progress, 100, ...): what progress_callback receives
Callback(step, progress, jobs_added) ==
    [step |-> step, progress |-> progress, total |-> 100, jobs_added |-> jobs_added]

\* The unique index on jobs.job_url: the flush of the pending rows fails when
\* two of them hold the same job_url
JFlushOk(urls) == \A i, k \in DOMAIN urls : urls[i] = urls[k] => i = k

\* What scrape_jobs does: it raises, or it returns a frame, with or without
\* the column 'title' (jobs_df['title'] of a frame without it raises)
JRaises == [raises |-> TRUE, titled |-> TRUE, rows |-> <<>>]
JFrame(titled, rows) == [raises |-> FALSE, titled |-> titled, rows |-> rows]

\* How the call ends once its try statement is over: db.close() in the
\* finally clause returns and the results are returned, or it raises and so
\* does the call
JEnds == {"done", "raised"}

\* Lines 30-68: SessionLocal() outside the try, whose exception the call
\* raises; the first callback and scrape_jobs; the second callback and the
\* filter; the third callback. An exception of scrape_jobs or of the filter
\* is caught by the outer except
JFetch ==
    /\ j_pc = "start"
    /\ \E opened \in BOOLEAN :
         IF ~opened
         THEN /\ j_pc' = "raised"
              /\ UNCHANGED <<j_progress, j_results>>
         ELSE IF j_input.raises
         THEN /\ j_progress' = <<Callback("fetch", 0, 0)>>
              /\ j_results' = [j_results EXCEPT !.status = "failed", !.errors = 1]
              /\ j_pc' \in JEnds
         ELSE IF ~j_input.titled
         THEN /\ j_progress' = <<Callback("fetch", 0, 0), Callback("found", 20, 0)>>
              /\ j_results' = [j_results EXCEPT !.status = "failed", !.errors = 1,
                                                  !.jobs_found = Len(j_input.rows)]
              /\ j_pc' \in JEnds
         ELSE /\ j_progress' = <<Callback("fetch", 0, 0), Callback("found", 20, 0),
                                 Callback("filter", 30, 0)>>
              /\ j_results' = [j_results EXCEPT !.jobs_found = Len(j_input.rows)]
              /\ j_pc' = "loop"
    /\ UNCHANGED <<j_input, j_table, j_idx, j_pending>>
    /\ UNCHANGED notJobspy

\* One iteration of the loop over fde_jobs
JProcessRow ==
    /\ j_pc = "loop"
    /\ j_idx < Len(FdeJobs(j_input.rows))
    /\ j_idx' = j_idx + 1
    /\ LET row == FdeJobs(j_input.rows)[j_idx + 1]
           total_fde == Len(FdeJobs(j_input.rows))
       IN  IF row.job_url = "nan"
           THEN UNCHANGED <<j_results, j_pending, j_progress>>
           ELSE IF row.job_url \in j_table
           THEN /\ j_results' = [j_results EXCEPT !.jobs_skipped = @ + 1]
                /\ UNCHANGED <<j_pending, j_progress>>
           ELSE IF row.bad
           THEN /\ j_results' = [j_results EXCEPT !.errors = @ + 1]
                /\ UNCHANGED <<j_pending, j_progress>>
           ELSE /\ j_pending' = Append(j_pending, row.job_url)
                /\ j_results' = [j_results EXCEPT !.jobs_added = @ + 1]
                /\ j_progress' = Append(j_progress,
                        Callback("job", ProgressPct(j_idx, total_fde),
                                 j_results.jobs_added + 1))
    /\ UNCHANGED <<j_input, j_table, j_pc>>
    /\ UNCHANGED notJobspy

\* db.commit(), the ScraperLog rows, the outer except, db.close(), return
JCommit ==
    /\ j_pc = "loop"
    /\ j_idx = Len(FdeJobs(j_input.rows))
    /\ IF JFlushOk(j_pending)
       THEN /\ j_table' = j_table \cup Range(j_pending)
            /\ j_results' = [j_results EXCEPT !.status = "completed"]
       ELSE /\ j_table' = j_table
            /\ j_results' = [j_results EXCEPT !.status = "failed", !.errors = @ + 1]
    /\ j_pending' = <<>>
    /\ j_pc' \in JEnds
    /\ UNCHANGED <<j_input, j_idx, j_progress>>
    /\ UNCHANGED notJobspy

\* A call of run_jobspy_scrape on a frame of up to MaxRows rows (in a frame
\* without titles no row holds an FDE keyword), the jobs table holding u1
\* or nothing
InitJobspy ==
    /\ ScrapeIdle
    /\ DedupIdle
    /\ LLMIdle
    /\ PureIdle
    /\ j_pc = "start"
    /\ j_input \in {JRaises}
                     \cup {JFrame(TRUE, r) : r \in SeqsUpTo(JRows, MaxRows)}
                     \cup {JFrame(FALSE, r) :
                                r \in SeqsUpTo({w \in JRows : ~w.fde}, MaxRows)}
    /\ j_table \in {{}, {"u1"}}
    /\ j_idx = 0
    /\ j_pending = <<>>
    /\ j_results = [status |-> "running", jobs_found |-> 0, jobs_added |-> 0,
                    jobs_skipped |-> 0, errors |-> 0]
    /\ j_progress = <<>>

NextJobspy ==
    \/ JFetch
    \/ JProcessRow
    \/ JCommit

SpecJobspy == InitJobspy /\ [][NextJobspy]_vars

-----------------------------------------------------------------------------
(* FDEJobScraper._calculate_relevance (job_scraper.py): SpecRelevance *)

\* sub in s
Contains(s, sub) ==
    \E k \in 0..(Len(s) - Len(sub)) : SubSeq(s, k + 1, k + Len(sub)) = sub

Min(a, b) == IF a <= b THEN a ELSE b

\* The phrases looked for in title_lower
PhraseForwardDeploy ==
    <<"f", "o", "r", "w", "a", "r", "d", " ", "d", "e", "p", "l", "o", "y">>
PhraseFde ==
    <<"f", "d", "e">>
PhraseSolutionsEngineer ==
    <<"s", "o", "l", "u", "t", "i", "o", "n", "s", " ", "e", "n", "g", "i",
      "n", "e", "e", "r">>
PhraseFieldEngineer ==
    <<"f", "i", "e", "l", "d", " ", "e", "n", "g", "i", "n", "e", "e", "r">>
PhraseImplementation ==
    <<"i", "m", "p", "l", "e", "m", "e", "n", "t", "a", "t", "i", "o", "n">>
PhraseCustomerEngineer ==
    <<"c", "u", "s", "t", "o", "m", "e", "r", " ", "e", "n", "g", "i", "n",
      "e", "e", "r">>

\* Job titles: one per rung, titles matching several rungs, titles matching none
\* "Forward Deployed Engineer"
TitleForwardDeployed ==
    <<"F", "o", "r", "w", "a", "r", "d", " ", "D", "e", "p", "l", "o", "y",
      "e", "d", " ", "E", "n", "g", "i", "n", "e", "e", "r">>
\* "Solutions Engineer"
TitleSolutions ==
    <<"S", "o", "l", "u", "t", "i", "o", "n", "s", " ", "E", "n", "g", "i",
      "n", "e", "e", "r">>
\* "Field Engineer"
TitleField ==
    <<"F", "i", "e", "l", "d", " ", "E", "n", "g", "i", "n", "e", "e", "r">>
\* "Implementation Specialist"
TitleImplementation ==
    <<"I", "m", "p", "l", "e", "m", "e", "n", "t", "a", "t", "i", "o", "n",
      " ", "S", "p", "e", "c", "i", "a", "l", "i", "s", "t">>
\* "Customer Engineer"
TitleCustomer ==
    <<"C", "u", "s", "t", "o", "m", "e", "r", " ", "E", "n", "g", "i", "n",
      "e", "e", "r">>
\* "Software Engineer"
TitleSoftware ==
    <<"S", "o", "f", "t", "w", "a", "r", "e", " ", "E", "n", "g", "i", "n",
      "e", "e", "r">>
\* "FDE Solutions Engineer"
TitleFdeSolutions ==
    <<"F", "D", "E", " ", "S", "o", "l", "u", "t", "i", "o", "n", "s", " ",
      "E", "n", "g", "i", "n", "e", "e", "r">>
\* "Customer Engineer, Implementation"
TitleCustomerImplementation ==
    <<"C", "u", "s", "t", "o", "m", "e", "r", " ", "E", "n", "g", "i", "n",
      "e", "e", "r", ",", " ", "I", "m", "p", "l", "e", "m", "e", "n", "t",
      "a", "t", "i", "o", "n">>
\* "Halfdeck Rigger"
TitleHalfdeck ==
    <<"H", "a", "l", "f", "d", "e", "c", "k", " ", "R", "i", "g", "g", "e",
      "r">>
\* ""
TitleNone ==
<<>>
Titles ==
    {TitleForwardDeployed, TitleSolutions, TitleField,
     TitleImplementation, TitleCustomer, TitleSoftware,
     TitleFdeSolutions, TitleCustomerImplementation, TitleHalfdeck,
     TitleNone}

\* The ladder with `if` in place of each `elif`
BaseScoreAdditive(title_lower) ==
    (IF Contains(title_lower, PhraseForwardDeploy) \/ Contains(title_lower, PhraseFde)
     THEN 50 ELSE 0)
      + (IF Contains(title_lower, PhraseSolutionsEngineer) THEN 40 ELSE 0)
      + (IF Contains(title_lower, PhraseFieldEngineer)
            \/ Contains(title_lower, PhraseImplementation) THEN 30 ELSE 0)
      + (IF Contains(title_lower, PhraseCustomerEngineer) THEN 25 ELSE 0)

\* The title keywords (lines 233-241); scores are in hundredths
BaseScore(title_lower) ==
    IF Contains(title_lower, PhraseForwardDeploy) \/ Contains(title_lower, PhraseFde)
    THEN 50
    ELSE IF Contains(title_lower, PhraseSolutionsEngineer) THEN 40
    ELSE IF Contains(title_lower, PhraseFieldEngineer)
                \/ Contains(title_lower, PhraseImplementation) THEN 30
    ELSE IF Contains(title_lower, PhraseCustomerEngineer) THEN 25
    ELSE 0

\* A skills dict, each list given by its length
SkillsDict(a, p, c) == [ai_ml |-> a, programming |-> p, cloud_devops |-> c]
NoSkills == [k \in {} |-> 0]

\* The dict LLMSkillExtractor.extract_skills returns, each list given by its
\* length: the ten keys of SKILL_CATEGORIES
LLMSkillsDict(a, b, c) ==
    [k \in SkillCategories |->
        IF k = "ai_ml" THEN a
        ELSE IF k = "backend" THEN b
        ELSE IF k = "cloud" THEN c
        ELSE 0]

\* len(skills.get(key, []))
SkillLen(skills, key) == IF key \in DOMAIN skills THEN skills[key] ELSE 0

\* The AI/ML boost without its cap
AiBonusUncapped(ai_ml_count) == ai_ml_count * 5

\* min(ai_ml_count * 0.05, 0.25)
AiBonus(ai_ml_count) == Min(ai_ml_count * 5, 25)
\* min(prog_count * 0.02, 0.15)
ProgBonus(prog_count) == Min(prog_count * 2, 15)
\* min(cloud_count * 0.02, 0.1)
CloudBonus(cloud_count) == Min(cloud_count * 2, 10)

\* _calculate_relevance(title, skills), in hundredths
CalculateRelevance(title, skills) ==
    Min(BaseScore(Lower(title))
          + AiBonus(SkillLen(skills, "ai_ml"))
          + ProgBonus(SkillLen(skills, "programming"))
          + CloudBonus(SkillLen(skills, "cloud_devops")),
        100)

RelevanceCall ==
    /\ r_pc = "call"
    /\ r_score' = CalculateRelevance(r_title, r_skills)
    /\ r_pc' = "return"
    /\ UNCHANGED <<r_title, r_skills>>
    /\ UNCHANGED notRelevance

InitRelevance ==
    /\ ScrapeIdle
    /\ DedupIdle
    /\ LLMIdle
    /\ JobspyIdle
    /\ CacheIdle
    /\ ApiIdle
    /\ TaxonomyIdle
    /\ SectionsIdle
    /\ EngineIdle
    /\ r_pc = "call"
    /\ r_title \in Titles
    /\ r_skills \in {NoSkills}
            \cup {SkillsDict(a, p, c) : a \in 0..MaxSkillCount, p \in 0..MaxSkillCount,
                                        c \in 0..MaxSkillCount}
            \cup {LLMSkillsDict(a, b, c) : a \in {0, 1}, b \in 0..MaxSkillCount,
                                           c \in 0..MaxSkillCount}
    /\ r_score = 0

NextRelevance == RelevanceCall

SpecRelevance == InitRelevance /\ [][NextRelevance]_vars

-----------------------------------------------------------------------------
(* SkillExtractor (skill_extractor.py): SpecTaxonomy *)

Digits == <<"0", "1", "2", "3", "4", "5", "6", "7", "8", "9">>

\* The characters of the texts below in code point order
CodePointOrder ==
    <<" ", "#", "+", ",", "-", ".", "/">> \o Digits \o UpperLetters \o <<"_">>
        \o LowerLetters
CodePoint(c) == CHOOSE i \in DOMAIN CodePointOrder : CodePointOrder[i] = c

\* a < b for two str
RECURSIVE StrLess(_, _)
StrLess(a, b) ==
    IF b = <<>> THEN FALSE
    ELSE IF a = <<>> THEN TRUE
    ELSE IF a[1] = b[1] THEN StrLess(Tail(a), Tail(b))
    ELSE CodePoint(a[1]) < CodePoint(b[1])

\* sorted(list(skills))
RECURSIVE Sorted(_)
Sorted(skills) ==
    IF skills = {} THEN <<>>
    ELSE LET first == CHOOSE s \in skills : \A o \in skills \ {s} : StrLess(s, o)
         IN  <<first>> \o Sorted(skills \ {first})

\* \w of the re module
IsWordChar(c) ==
    \/ c \in Range(LowerLetters)
    \/ c \in Range(UpperLetters)
    \/ c \in Range(Digits)
    \/ c = "_"

\* \b between the first k characters of s and the rest
WordBoundary(s, k) ==
    (k >= 1 /\ IsWordChar(s[k])) # (k < Len(s) /\ IsWordChar(s[k + 1]))

\* re.compile(r'\b' + re.escape(skill) + r'\b', re.IGNORECASE).search(text_lower)
Search(skill, text_lower) ==
    \E k \in 0..(Len(text_lower) - Len(skill)) :
        /\ SubSeq(text_lower, k + 1, k + Len(skill)) = skill
        /\ WordBoundary(text_lower, k)
        /\ WordBoundary(text_lower, k + Len(skill))

\* Phrases of the taxonomy
SkillJava ==
    <<"j", "a", "v", "a">>
SkillJavascript ==
    <<"j", "a", "v", "a", "s", "c", "r", "i", "p", "t">>
SkillCpp ==
    <<"c", "+", "+">>
SkillCSharp ==
    <<"c", "#">>
SkillSql ==
    <<"s", "q", "l">>
SkillKubernetes ==
    <<"k", "u", "b", "e", "r", "n", "e", "t", "e", "s">>
SkillDocker ==
    <<"d", "o", "c", "k", "e", "r">>
SkillPostgresql ==
    <<"p", "o", "s", "t", "g", "r", "e", "s", "q", "l">>
SkillPostgres ==
    <<"p", "o", "s", "t", "g", "r", "e", "s">>

\* ALL_SKILLS.keys() in order
AllSkillsOrder ==
    <<"ai_ml", "programming", "cloud_devops", "soft_skills", "fde_specific",
      "data_pipelines">>

\* ALL_SKILLS, each category cut to its phrases over the characters of
\* Pieces: no other phrase of the taxonomy occurs in a text built from them
AllSkills ==
    [cat \in TaxonomyCategories |->
        CASE cat = "programming" ->
                {SkillJava, SkillJavascript, SkillCpp, SkillCSharp, SkillSql}
          [] cat = "cloud_devops" ->
                {SkillSql, SkillKubernetes, SkillDocker, SkillPostgresql,
                 SkillPostgres}
          [] OTHER -> {}]

\* A lookup in which the first category of a skill is kept
SkillToCategoryFirst ==
    [skill \in UNION {AllSkills[cat] : cat \in TaxonomyCategories} |->
        LET first == CHOOSE i \in DOMAIN AllSkillsOrder :
                        /\ skill \in AllSkills[AllSkillsOrder[i]]
                        /\ \A j \in DOMAIN AllSkillsOrder :
                                skill \in AllSkills[AllSkillsOrder[j]] => i <= j
        IN  AllSkillsOrder[first]]

\* self.skill_to_category: a later category overwrites an earlier one
SkillToCategory ==
    [skill \in UNION {AllSkills[cat] : cat \in TaxonomyCategories} |->
        LET last == CHOOSE i \in DOMAIN AllSkillsOrder :
                        /\ skill \in AllSkills[AllSkillsOrder[i]]
                        /\ \A j \in DOMAIN AllSkillsOrder :
                                skill \in AllSkills[AllSkillsOrder[j]] => j <= i
        IN  AllSkillsOrder[last]]

\* SkillExtractor.extract_skills(text)
ExtractSkillsTaxonomy(text) ==
    IF text = <<>> THEN [cat \in TaxonomyCategories |-> <<>>]
    ELSE LET text_lower == Lower(text)
             found_skills ==
                [cat \in TaxonomyCategories |->
                    {skill \in DOMAIN SkillToCategory :
                        /\ Search(skill, text_lower)
                        /\ SkillToCategory[skill] = cat}]
         IN  [cat \in TaxonomyCategories |-> Sorted(found_skills[cat])]

\* The pieces the texts are built from
PieceKubernetes ==
    <<"K", "u", "b", "e", "r", "n", "e", "t", "e", "s">>
PieceDocker ==
    <<"D", "o", "c", "k", "e", "r">>
PiecePostgres ==
    <<"P", "o", "s", "t", "g", "r", "e", "s">>
PieceJava ==
    <<"J", "a", "v", "a">>
PieceScript ==
    <<"S", "c", "r", "i", "p", "t">>
PieceCpp ==
    <<"C", "+", "+">>
PieceSql ==
    <<"S", "Q", "L">>
PieceSpace ==
    <<" ">>
PieceAnd ==
    <<" ", "a", "n", "d", " ">>
PieceComma ==
    <<",">>
Pieces ==
    {PieceKubernetes, PieceDocker, PiecePostgres, PieceJava, PieceScript,
     PieceCpp, PieceSql, PieceSpace, PieceAnd, PieceComma}

\* The concatenation of a sequence of pieces
RECURSIVE Concat(_)
Concat(ps) == IF ps = <<>> THEN <<>> ELSE ps[1] \o Concat(Tail(ps))

\* The texts of at most MaxPieces pieces
TaxonomyTexts ==
    {Concat(ps) : ps \in UNION {[1..n -> Pieces] : n \in 0..MaxPieces}}

TaxonomyCall ==
    /\ t_pc = "call"
    /\ t_found' = ExtractSkillsTaxonomy(t_text)
    /\ t_pc' = "return"
    /\ UNCHANGED t_text
    /\ UNCHANGED notTaxonomy

InitTaxonomy ==
    /\ ScrapeIdle
    /\ DedupIdle
    /\ LLMIdle
    /\ JobspyIdle
    /\ CacheIdle
    /\ ApiIdle
    /\ RelevanceIdle
    /\ SectionsIdle
    /\ EngineIdle
    /\ t_pc = "call"
    /\ t_text \in TaxonomyTexts
    /\ t_found = <<>>

NextTaxonomy == TaxonomyCall

SpecTaxonomy == InitTaxonomy /\ [][NextTaxonomy]_vars

-----------------------------------------------------------------------------
(* JobSectionParser (skill_extractor.py): SpecSections *)

\* \s of the re module, str.strip()
Whitespace == {" ", "\n", "\t", "\r"}

\* text[a:b]
Slice(text, a, b) == IF a < b THEN SubSeq(text, a + 1, b) ELSE <<>>

\* The offset of the first character at or after offset k that is not in cs
RECURSIVE SkipWhile(_, _, _)
SkipWhile(text, k, cs) ==
    IF k < Len(text) /\ text[k + 1] \in cs THEN SkipWhile(text, k + 1, cs) ELSE k

\* The offset after the last character before offset k that is not in cs
RECURSIVE SkipBack(_, _, _)
SkipBack(text, k, cs) ==
    IF k > 0 /\ text[k] \in cs THEN SkipBack(text, k - 1, cs) ELSE k

\* text.strip()
StripSpace(text) ==
    LET a == SkipWhile(text, 0, Whitespace)
    IN  Slice(text, a, SkipBack(text, Len(text), Whitespace))

\* Alternatives of SECTION_PATTERNS
HeadingResponsibilities ==
    <<"r", "e", "s", "p", "o", "n", "s", "i", "b", "i", "l", "i", "t", "i",
      "e", "s">>
HeadingYourRole ==
    <<"y", "o", "u", "r", " ", "r", "o", "l", "e">>
HeadingTheRole ==
    <<"t", "h", "e", " ", "r", "o", "l", "e">>
HeadingRequirements ==
    <<"r", "e", "q", "u", "i", "r", "e", "m", "e", "n", "t", "s">>
HeadingQualifications ==
    <<"q", "u", "a", "l", "i", "f", "i", "c", "a", "t", "i", "o", "n", "s">>
HeadingNiceToHave ==
    <<"n", "i", "c", "e", " ", "t", "o", " ", "h", "a", "v", "e">>
HeadingBonus ==
    <<"b", "o", "n", "u", "s">>
HeadingPreferred ==
    <<"p", "r", "e", "f", "e", "r", "r", "e", "d">>
HeadingPreferredQualifications ==
    <<"p", "r", "e", "f", "e", "r", "r", "e", "d", " ", "q", "u", "a", "l", "i", "f",
      "i", "c", "a", "t", "i", "o", "n", "s">>
HeadingAboutTheRole ==
    <<"a", "b", "o", "u", "t", " ", "t", "h", "e", " ", "r", "o", "l", "e">>
HeadingAboutUs ==
    <<"a", "b", "o", "u", "t", " ", "u", "s">>

\* SECTION_PATTERNS in the order of compiled_patterns: the section and,
\* in their order in the pattern, the alternatives over the characters of
\* SectionPieces (no other alternative matches a text built from them)
SectionPatterns ==
    << [section |-> "responsibilities",
        alts |-> <<HeadingResponsibilities, HeadingYourRole, HeadingTheRole>>],
       [section |-> "responsibilities", alts |-> <<>>],
       [section |-> "qualifications",
        alts |-> <<HeadingRequirements, HeadingQualifications>>],
       [section |-> "qualifications", alts |-> <<>>],
       [section |-> "nice_to_have",
        alts |-> <<HeadingNiceToHave, HeadingBonus, HeadingPreferred,
                   HeadingPreferredQualifications>>],
       [section |-> "nice_to_have", alts |-> <<>>],
       [section |-> "about_role", alts |-> <<HeadingAboutTheRole>>],
       [section |-> "about_company", alts |-> <<HeadingAboutUs>>] >>

\* The alternative, if any, that matches at offset k: the first in the
\* pattern's order, 0 for none. re.IGNORECASE: text is the job description
\* in lower case, as the alternatives are
AltAt(alts, text, k) ==
    LET hits == {i \in DOMAIN alts :
                    /\ k + Len(alts[i]) <= Len(text)
                    /\ SubSeq(text, k + 1, k + Len(alts[i])) = alts[i]}
    IN  IF hits = {} THEN 0 ELSE CHOOSE i \in hits : \A j \in hits : i <= j

\* pattern.finditer(text) from offset pos on: the heading, then [:\s]*
RECURSIVE FindIter(_, _, _, _)
FindIter(section, alts, text, pos) ==
    IF pos >= Len(text) THEN <<>>
    ELSE LET i == AltAt(alts, text, pos)
         IN  IF i = 0 THEN FindIter(section, alts, text, pos + 1)
             ELSE LET end == SkipWhile(text, pos + Len(alts[i]),
                                       Whitespace \cup {":"})
                  IN  <<[start |-> pos, end |-> end, section |-> section]>>
                        \o FindIter(section, alts, text, end)

\* The matches of the patterns from pattern p on, pattern after pattern
RECURSIVE MatchesFrom(_, _)
MatchesFrom(text, p) ==
    IF p > Len(SectionPatterns) THEN <<>>
    ELSE FindIter(SectionPatterns[p].section, SectionPatterns[p].alts, text, 0)
            \o MatchesFrom(text, p + 1)

\* boundaries before the sort
AllMatches(text) == MatchesFrom(Lower(text), 1)

\* boundaries left in the order the patterns found them
SortUnsorted(bs) == bs

\* boundaries.sort(key=lambda x: x[0]): stable, by start offset
RECURSIVE SortByStart(_)
SortByStart(bs) ==
    IF bs = <<>> THEN <<>>
    ELSE LET rest == SortByStart(Tail(bs))
             n == Cardinality({j \in DOMAIN rest : rest[j].start < bs[1].start})
         IN  SubSeq(rest, 1, n) \o <<bs[1]>> \o SubSeq(rest, n + 1, Len(rest))

\* re.sub(r'\n{3,}', '\n\n', text) and re.sub(r' {2,}', ' ', text): a run
\* of at least least characters c becomes keep of them
RECURSIVE CollapseRuns(_, _, _, _)
CollapseRuns(text, c, least, keep) ==
    IF text = <<>> THEN <<>>
    ELSE IF text[1] # c THEN <<text[1]>> \o CollapseRuns(Tail(text), c, least, keep)
    ELSE LET e == SkipWhile(text, 0, {c})
         IN  (IF e >= least THEN [i \in 1..keep |-> c] ELSE Slice(text, 0, e))
                \o CollapseRuns(Slice(text, e, Len(text)), c, least, keep)

Bullets == {"-", "*"}

\* re.sub(r'^\s*[-•*]\s*', '', text, flags=re.MULTILINE) from offset pos on
RECURSIVE RemoveBullets(_, _)
RemoveBullets(text, pos) ==
    IF pos >= Len(text) THEN <<>>
    ELSE LET w == SkipWhile(text, pos, Whitespace)
         IN  IF /\ pos = 0 \/ text[pos] = "\n"
                /\ w < Len(text)
                /\ text[w + 1] \in Bullets
             THEN RemoveBullets(text, SkipWhile(text, w + 1, Whitespace))
             ELSE <<text[pos + 1]>> \o RemoveBullets(text, pos + 1)

\* _clean_section(text)
CleanSection(text) ==
    StripSpace(RemoveBullets(CollapseRuns(CollapseRuns(text, "\n", 3, 2), " ", 2, 1), 0))

\* content of the match i of boundaries
ContentOf(text, boundaries, i) ==
    LET next_start == IF i + 1 <= Len(boundaries) THEN boundaries[i + 1].start
                      ELSE Len(text)
    IN  CleanSection(StripSpace(Slice(text, boundaries[i].end, next_start)))

\* The loop over boundaries in which every non-empty content is stored
RECURSIVE SectionsLoopLastWins(_, _, _, _)
SectionsLoopLastWins(text, boundaries, i, sections) ==
    IF i > Len(boundaries) THEN sections
    ELSE LET content == ContentOf(text, boundaries, i)
             section == boundaries[i].section
         IN  SectionsLoopLastWins(text, boundaries, i + 1,
                IF content # <<>>
                THEN [s \in DOMAIN sections \cup {section} |->
                        IF s = section THEN content ELSE sections[s]]
                ELSE sections)

\* The loop over boundaries from match i on
RECURSIVE SectionsLoop(_, _, _, _)
SectionsLoop(text, boundaries, i, sections) ==
    IF i > Len(boundaries) THEN sections
    ELSE LET content == ContentOf(text, boundaries, i)
             section == boundaries[i].section
         IN  SectionsLoop(text, boundaries, i + 1,
                IF /\ content # <<>>
                   /\ \/ section \notin DOMAIN sections
                      \/ Len(content) > Len(sections[section])
                THEN [s \in DOMAIN sections \cup {section} |->
                        IF s = section THEN content ELSE sections[s]]
                ELSE sections)

NoSections == [s \in {} |-> <<>>]

\* The pieces the job descriptions are built from
PieceRequirements ==
    <<"R", "e", "q", "u", "i", "r", "e", "m", "e", "n", "t", "s", ":">>
PieceAboutTheRole ==
    <<"A", "b", "o", "u", "t", " ", "t", "h", "e", " ", "r", "o", "l", "e">>
PieceBonus ==
    <<"B", "o", "n", "u", "s", " ">>
PiecePreferredQualifications ==
    <<"P", "r", "e", "f", "e", "r", "r", "e", "d", " ", "q", "u", "a", "l", "i", "f",
      "i", "c", "a", "t", "i", "o", "n", "s">>
PieceBullet ==
    <<"\n", "-", " ", "P", "y", "t", "h", "o", "n">>
PieceWide ==
    <<" ", " ", "S", "Q", "L">>
PieceBlankLines ==
    <<"\n", "\n", "\n">>
SectionPieces ==
    {PieceRequirements, PieceAboutTheRole, PieceBonus, PiecePreferredQualifications,
     PieceBullet, PieceWide, PieceBlankLines}

\* The job descriptions of at most MaxSectionPieces pieces
SectionTexts ==
    {Concat(ps) : ps \in UNION {[1..n -> SectionPieces] : n \in 0..MaxSectionPieces}}

\* parse_sections(text)
ParseSections ==
    /\ s_pc = "call"
    /\ IF s_text = <<>>
       THEN /\ s_boundaries' = <<>>
            /\ s_contents' = <<>>
            /\ s_sections' = NoSections
       ELSE \E boundaries \in {SortByStart(AllMatches(s_text))} :
                /\ s_boundaries' = boundaries
                /\ s_contents' = [i \in DOMAIN boundaries |->
                                    ContentOf(s_text, boundaries, i)]
                /\ s_sections' = SectionsLoop(s_text, boundaries, 1, NoSections)
    /\ s_pc' = "return"
    /\ UNCHANGED s_text
    /\ UNCHANGED notSections

InitSections ==
    /\ ScrapeIdle
    /\ DedupIdle
    /\ LLMIdle
    /\ JobspyIdle
    /\ CacheIdle
    /\ ApiIdle
    /\ RelevanceIdle
    /\ TaxonomyIdle
    /\ EngineIdle
    /\ s_pc = "call"
    /\ s_text \in SectionTexts
    /\ s_boundaries = <<>>
    /\ s_contents = <<>>
    /\ s_sections = NoSections

NextSections == ParseSections

SpecSections == InitSections /\ [][NextSections]_vars

-----------------------------------------------------------------------------
(* The callers of the two extractors: SpecEngine *)

\* Job descriptions: none, two short ones, one of exactly
\* MinDescriptionChars characters and one of one more
DescKubernetesDocker == PieceKubernetes \o PieceAnd \o PieceDocker
DescFifty ==
    DescKubernetesDocker \o PieceAnd \o PiecePostgres \o PieceAnd \o PieceJava
        \o PieceComma \o PieceSql \o PieceSpace \o PieceSpace \o PieceSpace
DescLong ==
    DescKubernetesDocker \o PieceAnd \o PiecePostgres \o PieceAnd \o PieceJava
        \o PieceAnd \o PieceSql
Descriptions == {<<>>, PiecePostgres, DescKubernetesDocker, DescFifty, DescLong}

\* What LLMSkillExtractor.extract_skills can return for a description: the
\* all-empty mapping (always, for an empty description) or a mapping that
\* holds skills
LLMFound == [AllEmpty EXCEPT !["cloud"] = <<SkillKubernetes, SkillDocker>>]
LLMResults(text) == IF text = <<>> THEN {AllEmpty} ELSE {AllEmpty, LLMFound}

\* skills = {}
NoSkillsExtracted == [cat \in {} |-> <<>>]

\* What a caller got: the extractors it called and the skills it goes on with
Extracted(consulted, skills) == [consulted |-> consulted, skills |-> skills]

\* extract_skills_for_job(text, use_llm)
ExtractSkillsForJobChoice(text, use_llm, available, llm_result) ==
    IF use_llm /\ available
    THEN Extracted({"llm"}, llm_result)
    ELSE Extracted({"taxonomy"}, ExtractSkillsTaxonomy(text))

\* _process_and_save_jobs: the skills of a listing whose description is raw_desc
ProcessAndSaveChoice(raw_desc, available, llm_result) ==
    IF raw_desc # <<>> /\ available
    THEN Extracted({"llm"}, llm_result)
    ELSE IF raw_desc # <<>>
    THEN Extracted({"taxonomy"}, ExtractSkillsTaxonomy(raw_desc))
    ELSE Extracted({}, NoSkillsExtracted)

\* run_jobspy_scrape: the skills of a row whose description is description
\* (a str, on which extractor.extract_skills does not raise)
JobspyChoice(description, available, llm_result) ==
    IF description # <<>> /\ Len(description) > MinDescriptionChars
    THEN IF available
         THEN Extracted({"llm"}, llm_result)
         ELSE Extracted({"taxonomy"}, ExtractSkillsTaxonomy(description))
    ELSE Extracted({}, NoSkillsExtracted)

ExtractSkillsForJobCall ==
    /\ e_pc = "call"
    /\ \E got \in {ExtractSkillsForJobChoice(e_text, e_use_llm, e_available,
                                             e_llm_result)} :
            /\ e_consulted' = got.consulted
            /\ e_skills' = got.skills
    /\ e_caller' = "extract_skills_for_job"
    /\ e_pc' = "return"
    /\ UNCHANGED <<e_text, e_use_llm, e_available, e_llm_result>>
    /\ UNCHANGED notEngine

ProcessAndSaveCall ==
    /\ e_pc = "call"
    /\ \E got \in {ProcessAndSaveChoice(e_text, e_available, e_llm_result)} :
            /\ e_consulted' = got.consulted
            /\ e_skills' = got.skills
    /\ e_caller' = "_process_and_save_jobs"
    /\ e_pc' = "return"
    /\ UNCHANGED <<e_text, e_use_llm, e_available, e_llm_result>>
    /\ UNCHANGED notEngine

JobspyCall ==
    /\ e_pc = "call"
    /\ \E got \in {JobspyChoice(e_text, e_available, e_llm_result)} :
            /\ e_consulted' = got.consulted
            /\ e_skills' = got.skills
    /\ e_caller' = "run_jobspy_scrape"
    /\ e_pc' = "return"
    /\ UNCHANGED <<e_text, e_use_llm, e_available, e_llm_result>>
    /\ UNCHANGED notEngine

InitEngine ==
    /\ ScrapeIdle
    /\ DedupIdle
    /\ LLMIdle
    /\ JobspyIdle
    /\ CacheIdle
    /\ ApiIdle
    /\ RelevanceIdle
    /\ TaxonomyIdle
    /\ SectionsIdle
    /\ e_pc = "call"
    /\ e_caller = "none"
    /\ e_text \in Descriptions
    /\ e_use_llm \in BOOLEAN
    /\ e_available \in BOOLEAN
    /\ e_llm_result \in LLMResults(e_text)
    /\ e_consulted = {}
    /\ e_skills = NoSkillsExtracted

NextEngine == ExtractSkillsForJobCall \/ ProcessAndSaveCall \/ JobspyCall

SpecEngine == InitEngine /\ [][NextEngine]_vars

-----------------------------------------------------------------------------
(* Threads inside extract_skills on the process-wide cache: SpecCache *)

\* The threads that call extract_skills at the same time (the scheduler's
\* daily scrape and the background tasks of the API run in threads)
Threads == 1..NumThreads

\* Cache keys are numbered: 1.. are the keys stored so far, oldest first,
\* and the texts now extracted have the keys after MaxCacheSize
FilledCache(n) == [k \in 1..n |-> k]
NewKeys == {MaxCacheSize + 1, MaxCacheSize + 2}

\* A thread not yet in extract_skills
ThreadIdle ==
    [pc |-> "idle", key |-> 0, keys_to_remove |-> <<>>, i |-> 0, result |-> "none"]

\* extract_skills up to the parsed response: a hit returns the cached result,
\* otherwise the provider's response parses and normalized is built
CacheLookup(t) ==
    /\ c_threads[t].pc = "idle"
    /\ \E key \in NewKeys :
         c_threads' = [c_threads EXCEPT ![t] =
            IF key \in Range(c_cache)
            THEN [@ EXCEPT !.pc = "returned", !.key = key, !.result = "cached"]
            ELSE [@ EXCEPT !.pc = "save", !.key = key]]
    /\ UNCHANGED c_cache
    /\ UNCHANGED notCache

\* _save_to_cache: if len(_skill_cache) >= MAX_CACHE_SIZE
CacheCheckSize(t) ==
    /\ c_threads[t].pc = "save"
    /\ c_threads' = [c_threads EXCEPT ![t].pc =
            IF Len(c_cache) >= MaxCacheSize THEN "list" ELSE "put"]
    /\ UNCHANGED c_cache
    /\ UNCHANGED notCache

\* keys_to_remove = list(_skill_cache.keys())[:100]
CacheListKeys(t) ==
    /\ c_threads[t].pc = "list"
    /\ c_threads' = [c_threads EXCEPT
            ![t].pc = "del",
            ![t].keys_to_remove =
                SubSeq(c_cache, 1, IF Len(c_cache) < EvictCount THEN Len(c_cache)
                                   ELSE EvictCount),
            ![t].i = 1]
    /\ UNCHANGED c_cache
    /\ UNCHANGED notCache

\* The cache without key
RECURSIVE Without(_, _)
Without(cache, key) ==
    IF cache = <<>> THEN <<>>
    ELSE IF cache[1] = key THEN Tail(cache)
    ELSE <<cache[1]>> \o Without(Tail(cache), key)

\* del _skill_cache[key] for the next key of keys_to_remove: a KeyError
\* leaves _save_to_cache and is caught by extract_skills, which returns the
\* all-empty mapping
CacheDelete(t) ==
    /\ c_threads[t].pc = "del"
    /\ LET th == c_threads[t]
           key == th.keys_to_remove[th.i]
       IN  IF th.i > Len(th.keys_to_remove)
           THEN /\ c_threads' = [c_threads EXCEPT ![t].pc = "put"]
                /\ UNCHANGED c_cache
           ELSE IF key \notin Range(c_cache)
           THEN /\ c_threads' = [c_threads EXCEPT ![t].pc = "returned",
                                                  ![t].result = "all_empty"]
                /\ UNCHANGED c_cache
           ELSE /\ c_cache' = Without(c_cache, key)
                /\ c_threads' = [c_threads EXCEPT ![t].i = @ + 1]
    /\ UNCHANGED notCache

\* _skill_cache[key] = skills, and extract_skills returns normalized
CachePut(t) ==
    /\ c_threads[t].pc = "put"
    /\ c_cache' = IF c_threads[t].key \in Range(c_cache) THEN c_cache
                  ELSE Append(c_cache, c_threads[t].key)
    /\ c_threads' = [c_threads EXCEPT ![t].pc = "returned", ![t].result = "normalized"]
    /\ UNCHANGED notCache

\* The cache holds MaxCacheSize entries, or one or two fewer
InitCache ==
    /\ ScrapeIdle
    /\ DedupIdle
    /\ LLMIdle
    /\ JobspyIdle
    /\ RelevanceIdle
    /\ TaxonomyIdle
    /\ SectionsIdle
    /\ EngineIdle
    /\ ApiIdle
    /\ c_cache \in {FilledCache(MaxCacheSize - d) : d \in 0..2}
    /\ c_threads = [t \in Threads |-> ThreadIdle]

NextCache ==
    \E t \in Threads :
        \/ CacheLookup(t)
        \/ CacheCheckSize(t)
        \/ CacheListKeys(t)
        \/ CacheDelete(t)
        \/ CachePut(t)

SpecCache == InitCache /\ [][NextCache]_vars

-----------------------------------------------------------------------------
(* The scrape endpoints of the API and their background tasks (main.py): SpecApi *)

\* A step label: the text of the f-string and the values it formats
Step(text, args) == [text |-> text, args |-> args]
StepFetching(kind) ==
    IF kind = "jobspy" THEN Step("Fetching jobs from LinkedIn & Indeed...", <<>>)
    ELSE Step("Fetching jobs from RSS feeds...", <<>>)
StepFound(n) == Step("Found {len(jobs_df)} jobs, filtering FDE roles...", <<n>>)
StepProcessing(n) == Step("Processing {total_fde} FDE jobs...", <<n>>)
StepJob(i, n) == Step("Processing jobs ({idx + 1}/{total})...", <<i, n>>)
StepError(what) == Step("Error: {str(e)}", <<what>>)

\* scrape_progress
Progress(status, step, progress, total, jobs_found, jobs_added, current_job) ==
    [status |-> status, step |-> step, progress |-> progress, total |-> total,
     jobs_found |-> jobs_found, jobs_added |-> jobs_added,
     current_job |-> current_job]

\* scrape_progress after import
ProgressIdle == Progress("idle", Step("", <<>>), 0, 0, 0, 0, "")

\* The reset of scrape_progress by the jobspy and by the RSS endpoint
ProgressStarted(kind) ==
    IF kind = "jobspy"
    THEN Progress("running", Step("Starting scrape...", <<>>), 0, 0, 0, 0, "")
    ELSE Progress("running", Step("Starting RSS scrape...", <<>>), 0, 100, 0, 0, "")

\* scrape_progress as the task leaves it when it has not failed
ProgressCompleted(jobs_found, jobs_added) ==
    Progress("completed", Step("Done!", <<>>), 100, 100, jobs_found, jobs_added, "")

\* scrape_progress as the except clause of the task leaves it
ProgressFailed(what) == Progress("failed", StepError(what), 0, 0, 0, 0, "")

\* The guard of both endpoints without its test
AlreadyRunningIgnored(progress) == FALSE

\* if scrape_progress["status"] == "running"
AlreadyRunning(progress) == progress.status = "running"

ScrapeKinds == {"jobspy", "rss"}

\* scrape_progress[field] = value
Assign(field, value) == [field |-> field, value |-> value]

\* update_progress of main.py: five assignments to the scrape_progress of
\* the moment, each one a step of its own for the other threads
UpdateProgress(step, progress, total, current_job, jobs_added) ==
    <<Assign("step", step), Assign("progress", progress), Assign("total", total),
      Assign("current_job", current_job), Assign("jobs_added", jobs_added)>>

\* The frames scrape_jobs returns, the empty frame without columns among
\* them, and the lists search_jobs returns (of FDE roles only), and the call
\* that raises
Raises == JRaises
Returns(rows) == JFrame(TRUE, rows)
ApiFrames ==
    {<<>>,
     <<JRow("u1", TRUE, FALSE)>>,
     <<JRow("u2", FALSE, FALSE), JRow("u1", TRUE, FALSE)>>,
     <<JRow("nan", TRUE, FALSE), JRow("u1", TRUE, TRUE)>>}
ApiListings ==
    {<<>>,
     <<JRow("u1", TRUE, FALSE)>>,
     <<JRow("u2", TRUE, FALSE), JRow("u2", TRUE, FALSE)>>}
ApiInputs(kind) ==
    IF kind = "jobspy"
    THEN {Raises, JFrame(FALSE, <<>>)} \cup {Returns(rows) : rows \in ApiFrames}
    ELSE {Raises} \cup {Returns(rows) : rows \in ApiListings}

\* A background task: where it is, the rows it still works on and whether
\* their frame has titles, the index of the next row, len(jobs_df) or
\* len(jobs), its jobs_added, the urls of the
\* Job rows added to its session, the assignments of the update under way,
\* and what its except clause caught
Task(kind) ==
    [kind |-> kind, state |-> "added", rows |-> <<>>, titled |-> TRUE,
     idx |-> 0, found |-> 0,
     added |-> 0, pending |-> <<>>, writes |-> <<>>, error |-> ""]

\* db.commit() of the pending rows against the unique index on jobs.job_url
ApiFlushOk(urls) == JFlushOk(urls) /\ \A i \in DOMAIN urls : urls[i] \notin a_table

\* trigger_scrape and trigger_rss_scrape: the handler is a coroutine without
\* an await, one step of the event loop
Trigger(kind) ==
    /\ Len(a_responses) < MaxRequests
    /\ IF AlreadyRunning(a_progress)
       THEN /\ a_responses' = Append(a_responses, [kind |-> kind, status |-> "running"])
            /\ UNCHANGED <<a_progress, a_tasks>>
       ELSE /\ a_progress' = ProgressStarted(kind)
            /\ a_tasks' = Append(a_tasks, Task(kind))
            /\ a_responses' = Append(a_responses, [kind |-> kind, status |-> "started"])
    /\ UNCHANGED a_table
    /\ UNCHANGED notApi

\* run_scrape_with_progress / run_rss_scrape_with_progress starts in a
\* thread of the pool. The jobspy task assigns scrape_progress["step"] and
\* enters run_jobspy_scrape, which opens its session outside its try (an
\* exception there reaches the except clause of the task) and then calls
\* update_progress for the first time. The RSS task opens its session
\* outside its own try, where an exception ends the task with
\* scrape_progress as it is, and then assigns scrape_progress["step"]
TaskStart(t) ==
    /\ t \in DOMAIN a_tasks
    /\ a_tasks[t].state = "added"
    /\ \E opened \in BOOLEAN :
         IF a_tasks[t].kind = "jobspy"
         THEN /\ a_progress' = [a_progress EXCEPT !.step = StepFetching("jobspy")]
              /\ a_tasks' = [a_tasks EXCEPT ![t] =
                    IF opened
                    THEN [@ EXCEPT !.state = "fetch",
                                   !.writes = UpdateProgress(StepFetching("jobspy"),
                                                             0, 100, "", 0)]
                    ELSE [@ EXCEPT !.state = "publish", !.error = "SessionLocal"]]
         ELSE IF opened
         THEN /\ a_progress' = [a_progress EXCEPT !.step = StepFetching("rss")]
              /\ a_tasks' = [a_tasks EXCEPT ![t].state = "fetch"]
         ELSE /\ a_progress' = a_progress
              /\ a_tasks' = [a_tasks EXCEPT ![t].state = "done"]
    /\ UNCHANGED <<a_responses, a_table>>
    /\ UNCHANGED notApi

\* The next assignment of the update under way
TaskWrite(t) ==
    /\ t \in DOMAIN a_tasks
    /\ a_tasks[t].writes # <<>>
    /\ a_progress' = [a_progress EXCEPT
            ![Head(a_tasks[t].writes).field] = Head(a_tasks[t].writes).value]
    /\ a_tasks' = [a_tasks EXCEPT ![t].writes = Tail(@)]
    /\ UNCHANGED <<a_responses, a_table>>
    /\ UNCHANGED notApi

\* scrape_jobs and the callback after it (a failure is caught in
\* run_jobspy_scrape, which returns its results), search_jobs and the two
\* assignments after it (a failure reaches the except clause of the task)
TaskFetch(t) ==
    /\ t \in DOMAIN a_tasks
    /\ a_tasks[t].state = "fetch"
    /\ a_tasks[t].writes = <<>>
    /\ \E input \in ApiInputs(a_tasks[t].kind) :
         a_tasks' = [a_tasks EXCEPT ![t] =
            IF input.raises
            THEN [@ EXCEPT !.state = "publish",
                           !.error = IF a_tasks[t].kind = "rss" THEN "search_jobs"
                                     ELSE ""]
            ELSE IF a_tasks[t].kind = "jobspy"
            THEN [@ EXCEPT !.state = "filter",
                           !.rows = input.rows,
                           !.titled = input.titled,
                           !.found = Len(input.rows),
                           !.writes = UpdateProgress(StepFound(Len(input.rows)),
                                                     20, 100, "", 0)]
            ELSE [@ EXCEPT !.state = "rows",
                           !.rows = input.rows,
                           !.found = Len(input.rows),
                           !.writes = <<Assign("jobs_found", Len(input.rows)),
                                        Assign("progress", 30)>>]]
    /\ UNCHANGED <<a_progress, a_responses, a_table>>
    /\ UNCHANGED notApi

\* run_jobspy_scrape filters the FDE roles and reports their number; on a
\* frame without the column 'title' the filter raises, the outer except of
\* run_jobspy_scrape catches it and the results are returned
TaskFilter(t) ==
    /\ t \in DOMAIN a_tasks
    /\ a_tasks[t].state = "filter"
    /\ a_tasks[t].writes = <<>>
    /\ a_tasks' = [a_tasks EXCEPT ![t] =
            IF a_tasks[t].titled
            THEN [@ EXCEPT
                    !.state = "rows",
                    !.rows = FdeJobs(@),
                    !.writes = UpdateProgress(
                                  StepProcessing(Len(FdeJobs(a_tasks[t].rows))),
                                  30, 100, "", 0)]
            ELSE [@ EXCEPT !.state = "publish"]]
    /\ UNCHANGED <<a_progress, a_responses, a_table>>
    /\ UNCHANGED notApi

\* One round of the loop over the rows: a row without url (jobspy), a row
\* whose url is in the table, and a row whose Job cannot be built are passed
\* over; any other is added to the session and reported
TaskRow(t) ==
    /\ t \in DOMAIN a_tasks
    /\ a_tasks[t].state = "rows"
    /\ a_tasks[t].writes = <<>>
    /\ a_tasks[t].idx < Len(a_tasks[t].rows)
    /\ LET task == a_tasks[t]
           row == task.rows[task.idx + 1]
           total == Len(task.rows)
           step == StepJob(task.idx + 1, total)
           pct == ProgressPct(task.idx, total)
       IN  a_tasks' = [a_tasks EXCEPT ![t] =
              IF \/ task.kind = "jobspy" /\ row.job_url = "nan"
                 \/ row.job_url \in a_table
                 \/ row.bad
              THEN [@ EXCEPT !.idx = @ + 1]
              ELSE [@ EXCEPT
                      !.idx = @ + 1,
                      !.added = @ + 1,
                      !.pending = Append(@, row.job_url),
                      !.writes =
                          IF task.kind = "jobspy"
                          THEN UpdateProgress(step, pct, 100, row.job_url, task.added + 1)
                          ELSE <<Assign("step", step), Assign("progress", pct),
                                 Assign("current_job", row.job_url),
                                 Assign("jobs_added", task.added + 1)>>]]
    /\ UNCHANGED <<a_progress, a_responses, a_table>>
    /\ UNCHANGED notApi

\* db.commit() after the loop: the pending rows reach the table, or the
\* commit fails, on the unique index or for a reason of the database's, and
\* none does; run_jobspy_scrape catches the failure, the RSS task fails
\* with it
TaskCommit(t) ==
    /\ t \in DOMAIN a_tasks
    /\ a_tasks[t].state = "rows"
    /\ a_tasks[t].writes = <<>>
    /\ a_tasks[t].idx = Len(a_tasks[t].rows)
    /\ \E db_ok \in BOOLEAN :
         IF db_ok /\ ApiFlushOk(a_tasks[t].pending)
         THEN /\ a_table' = a_table \cup Range(a_tasks[t].pending)
              /\ a_tasks' = [a_tasks EXCEPT ![t].state = "publish"]
         ELSE /\ a_table' = a_table
              /\ a_tasks' = [a_tasks EXCEPT
                      ![t].state = "publish",
                      ![t].error = IF a_tasks[t].kind = "rss" THEN "commit" ELSE ""]
    /\ UNCHANGED <<a_progress, a_responses>>
    /\ UNCHANGED notApi

\* scrape_progress is bound to the completed or to the failed progress.
\* run_jobspy_scrape closes its session in its finally clause before it
\* returns: an exception there reaches the except clause of the task too
TaskPublish(t) ==
    /\ t \in DOMAIN a_tasks
    /\ a_tasks[t].state = "publish"
    /\ \E closed \in BOOLEAN :
         LET error == IF a_tasks[t].kind = "jobspy" /\ a_tasks[t].error = "" /\ ~closed
                      THEN "close"
                      ELSE a_tasks[t].error
         IN  /\ a_progress' = IF error = ""
                              THEN ProgressCompleted(a_tasks[t].found, a_tasks[t].added)
                              ELSE ProgressFailed(error)
             /\ a_tasks' = [a_tasks EXCEPT ![t].state = "closing", ![t].error = error]
    /\ UNCHANGED <<a_responses, a_table>>
    /\ UNCHANGED notApi

\* The rest of the task function after the assignment: logger.info, and
\* db.close() of the RSS task; the function returns and its locals are gone
TaskEnd(t) ==
    /\ t \in DOMAIN a_tasks
    /\ a_tasks[t].state = "closing"
    /\ a_tasks' = [a_tasks EXCEPT ![t] = [Task(@.kind) EXCEPT !.state = "done"]]
    /\ UNCHANGED <<a_progress, a_responses, a_table>>
    /\ UNCHANGED notApi

\* The API process after import, the jobs table empty
InitApi ==
    /\ ScrapeIdle
    /\ DedupIdle
    /\ LLMIdle
    /\ JobspyIdle
    /\ CacheIdle
    /\ RelevanceIdle
    /\ TaxonomyIdle
    /\ SectionsIdle
    /\ EngineIdle
    /\ a_progress = ProgressIdle
    /\ a_tasks = <<>>
    /\ a_responses = <<>>
    /\ a_table = {}

NextApi ==
    \/ \E kind \in ScrapeKinds : Trigger(kind)
    \/ \E t \in 1..MaxRequests : TaskStart(t)
    \/ \E t \in 1..MaxRequests : TaskWrite(t)
    \/ \E t \in 1..MaxRequests : TaskFetch(t)
    \/ \E t \in 1..MaxRequests : TaskFilter(t)
    \/ \E t \in 1..MaxRequests : TaskRow(t)
    \/ \E t \in 1..MaxRequests : TaskCommit(t)
    \/ \E t \in 1..MaxRequests : TaskPublish(t)
    \/ \E t \in 1..MaxRequests : TaskEnd(t)

SpecApi == InitApi /\ [][NextApi]_vars

-----------------------------------------------------------------------------
(* Claims *)

\* The listings of all_jobs that scraper a produced
FromScraper(a) == SelectSeq(all_jobs, LAMBDA j : j.source = ScraperNames[a])

\* C1: in run_daily_scrape, whichever scrapers' search_jobs raise, the run goes
\* on to deduplication and all_jobs holds from every other scraper exactly the
\* listings its search returned, in their order; a raising scraper contributes
\* none. (While the searches are collected this holds of the collected ones.)
C1_ErrorIsolation ==
    /\ \A a \in Scrapers :
         FromScraper(a) =
            IF fut[a] = "collected" /\ ~results[a].raises THEN results[a].jobs ELSE <<>>
    /\ (\A a \in Scrapers : fut[a] = "collected") => phase # "search"

C1_Witness ==
    /\ phase = "done"
    /\ \E a, b \in Scrapers :
         /\ results[a].raises
         /\ ~results[b].raises
         /\ Len(results[b].jobs) = 2
         /\ all_jobs = results[b].jobs
         /\ summary.total_found = 2

\* C2: no two rows of the jobs table have job_urls that are equal after
\* normalization (lowercased, trailing slashes stripped).
C2_OneRecordPerNormalizedUrl ==
    \A i, j \in DOMAIN store :
        i # j => NormalizeUrl(store[i].job_url) # NormalizeUrl(store[j].job_url)

\* C3: a second run whose scrapers return what they returned in the first run,
\* against the table the first run left, adds no row, whatever the order in
\* which the searches complete in either run.
C3_SecondRunSavesNothing ==
    (run = 2 /\ same_input /\ phase = "done") => Len(store) = store0

\* u and v differ at most by case and by trailing slashes
SameUpToCaseAndSlash(u, v) ==
    LET su == RStrip(u, "/")
        sv == RStrip(v, "/")
    IN  /\ Len(su) = Len(sv)
        /\ \A k \in 1..Len(su) : LowerChar(su[k]) = LowerChar(sv[k])

\* The positions of jobs whose URL no earlier position has, up to case and
\* trailing slashes
FirstOccurrences(jobs) ==
    {k \in DOMAIN jobs :
        \A j \in 1..(k - 1) : ~SameUpToCaseAndSlash(jobs[j].job_url, jobs[k].job_url)}

\* C4: _deduplicate_jobs returns, in input order, exactly the listings that are
\* the first occurrence of their URL up to case and trailing slashes.
C4_DedupKeepsFirstOccurrences ==
    d_pc = "return" =>
        LET keep == FirstOccurrences(d_jobs)
        IN  /\ Len(d_unique) = Cardinality(keep)
            /\ \A m \in 1..Len(d_unique) :
                 \E k \in keep :
                    /\ Cardinality({x \in keep : x <= k}) = m
                    /\ d_unique[m] = d_jobs[k]

C4_Witness ==
    /\ d_pc = "return"
    /\ Len(d_jobs) = 3
    /\ d_jobs[1].job_url = UrlJ1Upper
    /\ d_jobs[2].job_url = UrlJ2
    /\ d_jobs[3].job_url = UrlJ1Slash
    /\ d_unique = <<d_jobs[1], d_jobs[2]>>

\* The two texts agree on their first KeyChars characters
SamePrefix(t, u) == Take(t, KeyChars) = Take(u, KeyChars)

\* The k-th logged call is a call of extract_skills
LLMCall(k) == ~calls[k].taxonomy

\* No save before the j-th call found the cache at MaxCacheSize
NoEvictionBefore(j) ==
    Cardinality({k \in 1..(j - 1) : calls[k].stored}) <= MaxCacheSize

\* C5 as stated: any two extract_skills calls whose texts agree on their
\* first 2000 characters issue exactly one provider call in total and the
\* second returns the result of the first; a cache hit calls no provider.
\* Read here for an extractor with a provider and its cache enabled, and
\* for texts that are not empty.
C5_SamePrefixOneProviderCall ==
    /\ \A i, j \in DOMAIN calls :
            (i < j /\ LLMCall(i) /\ LLMCall(j)
                /\ use_cache /\ IsAvailable /\ calls[i].text # TextEmpty
                /\ SamePrefix(calls[i].text, calls[j].text)) =>
                /\ Len(calls[i].attempts) + Len(calls[j].attempts) = 1
                /\ calls[j].result = calls[i].result
    /\ \A k \in DOMAIN calls : calls[k].hit => calls[k].attempts = <<>>

\* C5, amended: once an extract_skills call has parsed a response and
\* stored its result, every later extract_skills call whose text agrees
\* with it on the first 2000 characters, made before any eviction, is a
\* cache hit: it issues no provider call and returns the stored result, so
\* the two calls issue exactly as many provider calls as the first made
\* (one when its primary provider answered); a cache hit never calls a
\* provider.
C5_StoredPrefixServedFromCache ==
    /\ \A i, j \in DOMAIN calls :
            (i < j /\ calls[i].stored /\ LLMCall(j) /\ NoEvictionBefore(j)
                /\ SamePrefix(calls[i].text, calls[j].text)) =>
                /\ calls[j].hit
                /\ calls[j].result = calls[i].result
                /\ Len(calls[i].attempts) + Len(calls[j].attempts)
                        = Len(calls[i].attempts)
                /\ (calls[i].attempts[1].outcome = "text" =>
                        Len(calls[i].attempts) + Len(calls[j].attempts) = 1)
    /\ \A k \in DOMAIN calls : calls[k].hit => calls[k].attempts = <<>>

\* C5 witness: a call on TextLong is answered and stored, and a later call
\* on TextHuge, which shares its first 2000 characters, is served from the
\* cache with the same non-empty result
C5_Witness ==
    \E i, j \in DOMAIN calls :
        /\ i < j
        /\ calls[i].text = TextLong
        /\ calls[i].stored
        /\ Len(calls[i].attempts) = 1
        /\ calls[j].text = TextHuge
        /\ calls[j].hit
        /\ calls[j].result = calls[i].result
        /\ calls[j].result["backend"] = <<(<<"p", "y">>)>>

\* C6: when the primary provider call of an extract_skills call raises and
\* a secondary provider is configured, the secondary is called in the same
\* call with the identical text, its response is parsed and returned, and
\* the counter of the secondary, and not that of the primary, is
\* incremented.
C6_FallbackServesAndCounts ==
    \A k \in DOMAIN calls :
        LET c == calls[k] IN
        (c.attempts # <<>> /\ c.attempts[1].outcome # "text"
            /\ gemini_client /\ anthropic_client) =>
            /\ Len(c.attempts) = 2
            /\ c.attempts[2].provider # c.attempts[1].provider
            /\ c.attempts[2].sent = c.attempts[1].sent
            /\ (c.attempts[2].outcome = "text" =>
                    /\ c.result = ResultOf(c.attempts[2].response)
                    /\ c.attempts[2].counted
                    /\ ~c.attempts[1].counted)

\* The response text is not the serialisation of a JSON object
NotAJsonObject(content) ==
    \/ content.form \in {"blank", "garbage"}
    \/ content.form \in {"plain", "fence", "prose"} /\ content.value.type # "object"

\* The call asked a provider and every provider it asked failed, or the
\* response was empty, or the response could not be parsed as a JSON object
FailedCall(c) ==
    /\ c.attempts # <<>>
    /\ LET last == c.attempts[Len(c.attempts)]
       IN  \/ last.outcome # "text"
           \/ last.response.form = "empty"
           \/ NotAJsonObject(last.response)

\* C7: extract_skills never raises; when every configured provider fails,
\* the response is empty, or the response cannot be parsed as a JSON
\* object, the call returns the mapping with every configured category
\* empty, stores nothing in the cache and does not invoke the taxonomy
\* matcher.
C7_FailureReturnsEmptyStoresNothing ==
    \A k \in DOMAIN calls :
        FailedCall(calls[k]) =>
            /\ calls[k].result = AllEmpty
            /\ ~calls[k].stored
            /\ ~calls[k].taxonomy

\* The listing was not in the table when the run started
NewListing(l) == \A k \in 1..store0 : store[k].job_url # l.job_url

\* The loop's query for listing number k raised
QueryFailed(k) == \E e \in Range(errors) : e.listing = k /\ e.what = "query"

\* C8: when the detail fetch for a new listing returns None or an empty
\* raw_description, a Job is created whose raw_description is the description
\* the listing carried.
C8_KeepsListingDescription ==
    \A k \in 1..idx :
        LET l == unique_jobs[k]
        IN  ( /\ NewListing(l)
              /\ ~QueryFailed(k)
              /\ \/ l.page.kind = "none"
                 \/ l.page.kind = "dict" /\ l.page.raw_description = "" )
            => \E r \in Range(added) :
                  r.job_url = l.job_url /\ r.raw_description = l.raw_description

\* A listing that nothing is wrong with
Sound(l) == l.company # NULL /\ GetJobDetails(l).kind # "raise"

\* C9: when a batch commit raises, only the listing at hand is logged and
\* skipped: every later new listing of the run is processed without an error
\* and is in the table when the run is over.
C9_BadRecordDoesNotStopTheRun ==
    phase = "done" =>
        \A e \in Range(errors) :
            e.what = "commit" =>
                \A m \in (e.listing + 1)..Len(unique_jobs) :
                    LET l == unique_jobs[m]
                    IN  (NewListing(l) /\ Sound(l)) =>
                            /\ \E k \in DOMAIN store : store[k].job_url = l.job_url
                            /\ \A f \in Range(errors) : f.listing # m

\* C10: when the final commit of a run fails, the rows of the batches the run
\* committed before are in the table, and the run goes on to return its summary.
C10_CommittedBatchesSurvive ==
    final_failed =>
        /\ \A r \in Range(batch_committed) : r \in Range(store)
        /\ phase \in {"freq", "log", "done"}
        /\ phase = "done" => summary.saved_jobs = saved_count

C10_Witness ==
    /\ final_failed
    /\ phase = "done"
    /\ Len(batch_committed) = BatchSize
    /\ Len(store) = store0 + BatchSize

\* C11: run_daily_scrape always terminates and returns a summary with
\* total_found, unique_jobs, saved_jobs and scraper_results, whatever fails:
\* the call returns, and what it has returned is the summary.
C11_RunReturnsSummary ==
    /\ <>(phase = "done")
    /\ [](phase = "done" =>
            /\ summary.total_found = Len(all_jobs)
            /\ summary.unique_jobs = Len(unique_jobs)
            /\ summary.saved_jobs = saved_count
            /\ DOMAIN scraper_results = Scrapers)

\* C11 witness: a run has returned in which one search raised, a detail
\* fetch raised, the scoring of a listing raised and the final commit failed
C11_Witness ==
    /\ phase = "done"
    /\ summary # NoSummary
    /\ \E a \in Scrapers : results[a].raises
    /\ \E e \in Range(errors) : e.what = "details"
    /\ \E e \in Range(errors) : e.what = "extract"
    /\ final_failed

\* C12: when a scraper's search_jobs raises during run_daily_scrape, the
\* errors list of scraper_results for that scraper is non-empty at the end
\* of the run.
C12_SearchErrorRecorded ==
    phase = "done" =>
        \A a \in Scrapers : results[a].raises => scraper_results[a].errors > 0

\* C13: saved_jobs of the returned summary equals the number of rows the
\* run committed to the jobs table, also when a batch commit or the final
\* commit fails.
C13_SavedCountIsCommitted ==
    phase = "done" => summary.saved_jobs = Len(store) - store0

\* The Job objects of this run counted in saved_count that came from scraper a
SavedFrom(a) == Len(SelectSeq(added, LAMBDA j : j.source = ScraperNames[a]))

\* C14: for every source of a run, jobs_added of its ScraperLog row equals
\* the number of records saved in that run from that source, so the rows'
\* jobs_added sum to the run's saved count.
C14_AddedPerSource ==
    phase = "done" =>
        \A a \in DOMAIN scraper_log : scraper_log[a].jobs_added = SavedFrom(a)

\* C15: within one run_jobspy_scrape run, the percentages passed to
\* successive invocations of the progress callback are non-decreasing and
\* lie in 0..100, and the running added-count passed to it is
\* non-decreasing, whatever mix of added, skipped and failing listings the
\* run processes.
C15_ProgressMonotone ==
    /\ \A i \in DOMAIN j_progress :
            /\ j_progress[i].progress \in 0..j_progress[i].total
            /\ j_progress[i].total = 100
    /\ \A i, k \in DOMAIN j_progress :
            i < k =>
                /\ j_progress[i].progress <= j_progress[k].progress
                /\ j_progress[i].jobs_added <= j_progress[k].jobs_added

\* C15 witness: a run over three FDE rows has returned: the first was
\* skipped as existing, the second failed, the third was added and reported
\* at 90 percent with an added-count of 1
C15_Witness ==
    /\ j_pc = "done"
    /\ Len(FdeJobs(j_input.rows)) = 3
    /\ j_results.jobs_skipped = 1
    /\ j_results.errors = 1
    /\ j_results.jobs_added = 1
    /\ Len(j_progress) = 4
    /\ j_progress[4].progress = 90
    /\ j_progress[4].jobs_added = 1

\* The rungs of the title ladder in priority order
Rungs ==
    << [phrases |-> {PhraseForwardDeploy, PhraseFde}, value |-> 50],
       [phrases |-> {PhraseSolutionsEngineer}, value |-> 40],
       [phrases |-> {PhraseFieldEngineer, PhraseImplementation}, value |-> 30],
       [phrases |-> {PhraseCustomerEngineer}, value |-> 25] >>

\* The rungs the title matches
Matched(title) ==
    {r \in DOMAIN Rungs : \E ph \in Rungs[r].phrases : Contains(Lower(title), ph)}

\* The skills are empty: no dict entry, or empty lists
EmptySkills(skills) ==
    \A key \in {"ai_ml", "programming", "cloud_devops"} : SkillLen(skills, key) = 0

\* C16: the base score is the value of the first rung matched in the fixed
\* order 'forward deploy'/'fde' (0.5), 'solutions engineer' (0.4), 'field
\* engineer'/'implementation' (0.3), 'customer engineer' (0.25), else 0.0; a
\* title matching several rungs gets the highest-priority rung's value only;
\* 'Forward Deployed Engineer' with empty skills scores 0.5 and a title
\* without keyword and empty skills scores 0.0.
C16_FirstRungMatchedWins ==
    (r_pc = "return" /\ EmptySkills(r_skills)) =>
        /\ Matched(r_title) = {} => r_score = 0
        /\ Matched(r_title) # {} =>
                r_score = Rungs[CHOOSE r \in Matched(r_title) :
                                    \A q \in Matched(r_title) : r <= q].value
        /\ r_title = TitleForwardDeployed => r_score = 50

\* C16 witness: 'FDE Solutions Engineer' matches the first two rungs and,
\* with empty skills, has been scored 0.5
C16_Witness ==
    /\ r_pc = "return"
    /\ r_title = TitleFdeSolutions
    /\ Matched(r_title) = {1, 2}
    /\ r_skills = NoSkills
    /\ r_score = 50

\* C17: for every title and all skill counts a (ai_ml), p (programming),
\* c (cloud_devops) the score in hundredths is
\* min(100, base + min(5a, 25) + min(2p, 15) + min(2c, 10)), so it lies
\* within [0, 1].
C17_ScoreClosedForm ==
    r_pc = "return" =>
        LET a == SkillLen(r_skills, "ai_ml")
            p == SkillLen(r_skills, "programming")
            c == SkillLen(r_skills, "cloud_devops")
            base == IF Matched(r_title) = {} THEN 0
                    ELSE Rungs[CHOOSE r \in Matched(r_title) :
                                    \A q \in Matched(r_title) : r <= q].value
            capped(x, cap) == IF x > cap THEN cap ELSE x
        IN  /\ r_score = capped(base + capped(5 * a, 25) + capped(2 * p, 15)
                                    + capped(2 * c, 10), 100)
            /\ r_score \in 0..100

\* C17 witness: 'Forward Deployed Engineer' with every skill count above
\* its cap has been scored 1.0
C17_Witness ==
    /\ r_pc = "return"
    /\ r_title = TitleForwardDeployed
    /\ SkillLen(r_skills, "ai_ml") > 5
    /\ SkillLen(r_skills, "programming") >= 8
    /\ SkillLen(r_skills, "cloud_devops") > 5
    /\ r_score = 100

\* The phrase occurs in the text, letter case aside, at offset k
OccursAt(skill, text, k) ==
    /\ k + Len(skill) <= Len(text)
    /\ Lower(SubSeq(text, k + 1, k + Len(skill))) = skill

\* A letter or a digit
IsAlnum(ch) ==
    ch \in Range(LowerLetters) \cup Range(UpperLetters) \cup Range(Digits)

\* The occurrence at offset k has whitespace or a text boundary on each side
DelimitedAt(skill, text, k) ==
    /\ OccursAt(skill, text, k)
    /\ k = 0 \/ text[k] = " "
    /\ k + Len(skill) = Len(text) \/ text[k + Len(skill) + 1] = " "

\* The occurrence at offset k touches a letter or a digit
InsideTokenAt(skill, text, k) ==
    /\ OccursAt(skill, text, k)
    /\ \/ k >= 1 /\ IsAlnum(text[k])
       \/ k + Len(skill) < Len(text) /\ IsAlnum(text[k + Len(skill) + 1])

\* The phrases reported in any category
Reported == UNION {Range(t_found[cat]) : cat \in DOMAIN t_found}

\* C18: extract_skills reports a taxonomy phrase iff it occurs in the text,
\* case-insensitively, as a whole word: a reported phrase occurs in the
\* text, a phrase that occurs delimited by whitespace or the text
\* boundaries is reported, a phrase whose every occurrence lies inside a
\* longer alphanumeric token is not, and no alias is collapsed
\* ('Kubernetes and Docker' yields 'kubernetes' and 'docker' in
\* cloud_devops, 'Postgres' alone never yields 'postgresql').
C18_WholeWordLiteralMatch ==
    t_pc = "return" =>
        /\ \A skill \in DOMAIN SkillToCategory :
            LET offsets == 0..Len(t_text)
            IN  /\ skill \in Reported =>
                        \E k \in offsets : OccursAt(skill, t_text, k)
                /\ (\E k \in offsets : DelimitedAt(skill, t_text, k)) =>
                        skill \in Reported
                /\ (\A k \in offsets : OccursAt(skill, t_text, k) =>
                                            InsideTokenAt(skill, t_text, k)) =>
                        skill \notin Reported
        /\ t_text = PieceKubernetes \o PieceAnd \o PieceDocker =>
                {SkillKubernetes, SkillDocker} \subseteq Range(t_found["cloud_devops"])
        /\ t_text = PiecePostgres => SkillPostgresql \notin Reported

\* C19: with the heading matches sorted by start offset, each match has as
\* content the cleaned text between its end offset and the start offset of
\* the next match (the end of the text for the last one); a section is a key
\* of the result iff one of its matches has non-empty cleaned content, its
\* value being such a content; empty or heading-free text yields an empty
\* mapping.
C19_SectionContents ==
    s_pc = "return" =>
        LET n == Len(s_boundaries)
            found == AllMatches(s_text)
            between(i) ==
                LET from == s_boundaries[i].end
                    to == IF i < n THEN s_boundaries[i + 1].start ELSE Len(s_text)
                IN  [k \in 1..(IF to > from THEN to - from ELSE 0) |-> s_text[from + k]]
        IN  /\ \A i, j \in 1..n : i < j => s_boundaries[i].start <= s_boundaries[j].start
            /\ n = Len(found)
            /\ Range(s_boundaries) = Range(found)
            /\ DOMAIN s_contents = 1..n
            /\ \A i \in 1..n : s_contents[i] = CleanSection(StripSpace(between(i)))
            /\ DOMAIN s_sections =
                    {s_boundaries[i].section : i \in {k \in 1..n : s_contents[k] # <<>>}}
            /\ \A s \in DOMAIN s_sections :
                    \E i \in 1..n : /\ s_boundaries[i].section = s
                                    /\ s_sections[s] = s_contents[i]
            /\ (s_text = <<>> \/ found = <<>>) => s_sections = NoSections

\* C19 witness: 'About the roleRequirements:\n- Python' has been parsed: the
\* match of 'About the role' ends after the match of 'the role' starts and has
\* no content, and only the last heading has content
C19_Witness ==
    /\ s_pc = "return"
    /\ s_text = PieceAboutTheRole \o PieceRequirements \o PieceBullet
    /\ Len(s_boundaries) = 3
    /\ s_boundaries[1].end > s_boundaries[2].start
    /\ s_contents[1] = <<>>
    /\ DOMAIN s_sections = {"qualifications"}
    /\ s_sections["qualifications"] = <<"P", "y", "t", "h", "o", "n">>

\* LLM use is requested: use_llm for extract_skills_for_job; the two scrape
\* loops always ask for it
LlmRequested == e_caller = "extract_skills_for_job" => e_use_llm

\* C20: the LLM path is used exactly when LLM use is requested and a
\* provider was initialised; otherwise the result is exactly the taxonomy
\* matcher's output for the text; when the LLM path is used the taxonomy
\* matcher is not consulted in that call, even if the LLM result is all-empty.
C20_EngineSelection ==
    e_pc = "return" =>
        /\ "llm" \in e_consulted <=> (LlmRequested /\ e_available)
        /\ "llm" \notin e_consulted => e_skills = ExtractSkillsTaxonomy(e_text)
        /\ "llm" \in e_consulted =>
                "taxonomy" \notin e_consulted /\ e_skills = e_llm_result

\* The keys the callers of extract_skills_for_job read
ExpectedKeys ==
    {"ai_ml", "backend", "frontend", "cloud", "soft_skills", "fde_specific",
     "data_pipelines"}

\* C21: extract_skills_for_job returns a mapping that holds the keys ai_ml,
\* backend, frontend, cloud, soft_skills, fde_specific and data_pipelines,
\* whichever path (LLM or taxonomy) served the call.
C21_SameShapeOnBothPaths ==
    (e_pc = "return" /\ e_caller = "extract_skills_for_job") =>
        ExpectedKeys \subseteq DOMAIN e_skills

\* The calls answered by LLMSkillExtractor.extract_skills
LLMCalls == {k \in DOMAIN calls : ~calls[k].taxonomy}

\* A skill string as the claim wants it: non-empty, lower case, no white
\* space around it
CleanSkill(s) ==
    /\ s # <<>>
    /\ \A i \in DOMAIN s : s[i] \notin {UpperLetters[j] : j \in DOMAIN UpperLetters}
    /\ s[1] # " "
    /\ s[Len(s)] # " "

\* The string the item stands for once lowered and stripped
Cleaned(item) == Strip(Lower(item.chars))

\* list holds, once each and in the order of their first occurrence, the
\* non-empty cleaned strings of items
FirstCleaned(list, items) ==
    LET first(s) == CHOOSE i \in DOMAIN items :
                        /\ Cleaned(items[i]) = s
                        /\ \A j \in DOMAIN items : Cleaned(items[j]) = s => i <= j
    IN  /\ Range(list) = {Cleaned(items[i]) : i \in DOMAIN items} \ {<<>>}
        /\ \A i, j \in DOMAIN list : i < j => first(list[i]) < first(list[j])

\* C22: every result of LLMSkillExtractor.extract_skills, fresh or served
\* from the cache, has exactly the ten category keys, and every skill string
\* in it is non-empty, lower case, without surrounding white space and unique
\* within its category (first occurrence kept, the response's order
\* preserved); a category missing from the response or not a list is empty.
C22_ResultIsNormalized ==
    \A k \in LLMCalls :
        LET result == calls[k].result
            attempts == calls[k].attempts
        IN  /\ DOMAIN result = Range(SkillCategoryOrder)
            /\ Cardinality(DOMAIN result) = 10
            /\ \A cat \in DOMAIN result :
                    /\ \A i \in DOMAIN result[cat] : CleanSkill(result[cat][i])
                    /\ \A i, j \in DOMAIN result[cat] :
                            result[cat][i] = result[cat][j] => i = j
            /\ (~calls[k].hit /\ calls[k].stored) =>
                    LET skills == Decode(attempts[Len(attempts)].response).value
                    IN  skills.type = "object" =>
                            \A cat \in DOMAIN result :
                                IF cat \in DOMAIN skills.fields
                                        /\ skills.fields[cat].type = "array"
                                THEN FirstCleaned(result[cat],
                                                      skills.fields[cat].items)
                                ELSE result[cat] = <<>>

\* C22 witness: a response holding "Py" and "py " under backend, "k" and " "
\* under cloud and a string under tools has been normalised and stored, and a
\* later call has been served that result from the cache
C22_Witness ==
    \E k, h \in LLMCalls :
        /\ k < h
        /\ ~calls[k].hit
        /\ calls[k].stored
        /\ calls[k].attempts[Len(calls[k].attempts)].response.value = GoodObject
        /\ calls[k].result["backend"] = << <<"p", "y">> >>
        /\ calls[k].result["cloud"] = << <<"k">> >>
        /\ calls[k].result["tools"] = <<>>
        /\ calls[h].hit
        /\ calls[h].result = calls[k].result

\* C23: under concurrent extract_skills calls, eviction-and-insert behaves
\* as one atomic step: the cache never holds more than MAX_CACHE_SIZE
\* entries, no eviction step fails on an entry another call already removed,
\* and every call whose provider response parsed returns the normalized
\* result of that response.
C23_EvictAndInsertAtomic ==
    /\ Len(c_cache) <= MaxCacheSize
    /\ \A t \in Threads :
            c_threads[t].pc = "returned" =>
                c_threads[t].result \in {"cached", "normalized"}

\* The keys of a cache, oldest first
CacheKeys(cache) == [k \in DOMAIN cache |-> cache[k].key]

\* The call that the step makes, when it makes one
StepCall == calls'[Len(calls')]

\* C24: after any sequence of single-threaded extract_skills calls the
\* cache holds at most MAX_CACHE_SIZE entries; a save that finds the cache
\* at capacity removes exactly the EvictCount oldest-inserted entries before
\* the insert, a cache hit changes neither the entries nor their order, and
\* the newly saved entry is present afterwards.
C24_EvictsOldestHundred ==
    /\ [](Len(skill_cache) <= MaxCacheSize)
    /\ [][Len(calls') = Len(calls) + 1 =>
            /\ StepCall.hit => skill_cache' = skill_cache
            /\ StepCall.stored =>
                /\ \E k \in DOMAIN skill_cache' :
                        /\ skill_cache'[k].key = CacheKey(StepCall.text)
                        /\ skill_cache'[k].value = StepCall.result
                /\ Len(skill_cache) >= MaxCacheSize =>
                        CacheKeys(skill_cache') =
                            Append(SubSeq(CacheKeys(skill_cache), EvictCount + 1,
                                          Len(skill_cache)),
                                   CacheKey(StepCall.text))
                /\ Len(skill_cache) < MaxCacheSize =>
                        CacheKeys(skill_cache') =
                            Append(CacheKeys(skill_cache), CacheKey(StepCall.text))]_vars

\* A hit on the oldest entry, then a save at capacity that evicted it
C24_Witness ==
    /\ Len(calls) = 2
    /\ calls[1].hit
    /\ calls[1].text = TextLong
    /\ calls[2].stored
    /\ Len(skill_cache) = MaxCacheSize - EvictCount + 1
    /\ skill_cache[1].key = <<Run("k", EvictCount + 1)>>
    /\ \A k \in DOMAIN skill_cache : skill_cache[k].key # CacheKey(TextLong)

\* The normalized URLs of the listings the searches of the run returned
ReturnedUrls ==
    UNION {{NormalizeUrl(RunScraper(a)[k].job_url) : k \in DOMAIN RunScraper(a)} :
                a \in Scrapers}

\* _deduplicate_jobs has returned
Deduplicated == phase \notin {"search", "dedup"}

\* The normalized URLs among unique_jobs are those the adapters returned,
\* each once, whatever the order of completion
UniqueUrlsFixed ==
    Deduplicated =>
        /\ {NormalizeUrl(unique_jobs[m].job_url) : m \in DOMAIN unique_jobs} = ReturnedUrls
        /\ Len(unique_jobs) = Cardinality(ReturnedUrls)

\* Scraper a, which completed before b, returned a listing with the
\* normalized URL of l
ReturnedBy(a, l) ==
    \E k \in DOMAIN RunScraper(a) :
        NormalizeUrl(RunScraper(a)[k].job_url) = NormalizeUrl(l.job_url)

\* C25 as stated: for fixed adapter results the normalized URLs among the
\* unique listings, and the number of unique listings, do not depend on
\* the order in which the searches complete, and the listing kept for a
\* normalized URL that several adapters returned is the one of the call that
\* completed first: never that of a call b when a call a that also returned
\* the URL had completed while b was still running.
C25_KeptIsFirstCompleted ==
    /\ [](UniqueUrlsFixed)
    /\ \A a, b \in Scrapers :
         [](fut[a] # "submitted" /\ fut[b] = "submitted" =>
                [](Deduplicated =>
                     \A m \in DOMAIN unique_jobs :
                        unique_jobs[m].source = ScraperNames[b] =>
                            ~ReturnedBy(a, unique_jobs[m])))

\* C25, amended: the normalized URLs among the unique listings and their
\* number do not depend on the order of completion, and the listing kept for
\* a normalized URL is the first one with that URL in all_jobs, which holds
\* the results in the order the as_completed loop collected them.
C25_KeptIsFirstCollected ==
    /\ UniqueUrlsFixed
    /\ Deduplicated =>
         \A m \in DOMAIN unique_jobs :
            \E k \in DOMAIN all_jobs :
                /\ unique_jobs[m] = all_jobs[k]
                /\ \A j \in 1..(k - 1) :
                      NormalizeUrl(all_jobs[j].job_url) # NormalizeUrl(all_jobs[k].job_url)

\* Both scrapers returned j1 up to case; the second one's call was collected
\* first and its listing is the one kept
C25_Witness ==
    /\ phase = "done"
    /\ Len(results[1].jobs) = 1
    /\ Len(results[2].jobs) = 1
    /\ results[1].jobs[1].job_url = UrlJ1
    /\ results[2].jobs[1].job_url = UrlJ1Upper
    /\ all_jobs = results[2].jobs \o results[1].jobs
    /\ unique_jobs = results[2].jobs

\* The skills dict came from LLMSkillExtractor.extract_skills
FromLLM(skills) == DOMAIN skills = SkillCategories

\* C26: for a listing enriched through the LLM path whose extraction result
\* holds n backend skills and m cloud skills, the stored relevance score
\* includes the programming bonus min(0.02*n, 0.15) and the cloud bonus
\* min(0.02*m, 0.10), as it does for the same counts obtained through the
\* taxonomy path.
C26_LLMPathBonuses ==
    (r_pc = "return" /\ FromLLM(r_skills)) =>
        r_score = CalculateRelevance(r_title,
                    SkillsDict(r_skills["ai_ml"], r_skills["backend"], r_skills["cloud"]))

\* The matches of section s that have content, by position in s_boundaries
WithContent(s) ==
    {i \in DOMAIN s_boundaries : s_boundaries[i].section = s /\ s_contents[i] # <<>>}

\* C27: when a section label is matched more than once in parse_sections,
\* the result holds the longest cleaned content among that label's matches,
\* the earliest of them when several are equally long: a later content that
\* is shorter or equally long never replaces an earlier one, and a later
\* longer content replaces an earlier shorter one.
C27_LongestContentKept ==
    s_pc = "return" =>
        \A s \in DOMAIN s_sections :
            \E i \in WithContent(s) :
                /\ s_sections[s] = s_contents[i]
                /\ \A j \in WithContent(s) :
                      \/ Len(s_contents[j]) < Len(s_contents[i])
                      \/ Len(s_contents[j]) = Len(s_contents[i]) /\ i <= j

\* 'Requirements:\n- PythonRequirements:  SQL' has been parsed: the second
\* match of the label has the shorter content 'SQL' and 'Python' is kept
C27_Witness ==
    /\ s_pc = "return"
    /\ s_text = PieceRequirements \o PieceBullet \o PieceRequirements \o PieceWide
    /\ Cardinality(WithContent("qualifications")) = 2
    /\ s_contents[2] = <<"S", "Q", "L">>
    /\ s_sections["qualifications"] = <<"P", "y", "t", "h", "o", "n">>

\* The categories skill is registered under in ALL_SKILLS, by position
RegisteredAt(skill) ==
    {i \in DOMAIN AllSkillsOrder : skill \in AllSkills[AllSkillsOrder[i]]}

\* C28: in every taxonomy result each skill phrase appears in at most one
\* category's list; a phrase registered under several categories (such as
\* 'sql') is reported only under the last-registered one; every category
\* list is sorted ascending without duplicates; and the result has exactly
\* the six taxonomy category keys, also for empty text.
C28_OneCategoryPerPhrase ==
    t_pc = "return" =>
        /\ DOMAIN t_found = Range(AllSkillsOrder)
        /\ Cardinality(DOMAIN t_found) = 6
        /\ \A cat \in DOMAIN t_found :
              /\ \A i, j \in DOMAIN t_found[cat] :
                    i < j => StrLess(t_found[cat][i], t_found[cat][j])
              /\ \A skill \in Range(t_found[cat]) :
                    /\ \A other \in DOMAIN t_found \ {cat} :
                            skill \notin Range(t_found[other])
                    /\ \E i \in RegisteredAt(skill) :
                            /\ AllSkillsOrder[i] = cat
                            /\ \A j \in RegisteredAt(skill) : j <= i

\* 'SQL Docker' has been matched: 'sql', registered under programming and
\* under cloud_devops, is reported under cloud_devops only, after 'docker'
C28_Witness ==
    /\ t_pc = "return"
    /\ t_text = PieceSql \o PieceSpace \o PieceDocker
    /\ Cardinality(RegisteredAt(SkillSql)) = 2
    /\ t_found["cloud_devops"] = <<SkillDocker, SkillSql>>
    /\ t_found["programming"] = <<>>

\* The heading pieces and the section whose pattern lists each phrase
HeadingPieces ==
    { [piece |-> PieceRequirements, section |-> "qualifications"],
      [piece |-> PieceBonus, section |-> "nice_to_have"],
      [piece |-> PieceAboutTheRole, section |-> "about_role"],
      [piece |-> PiecePreferredQualifications, section |-> "nice_to_have"] }

\* The pieces that are body text
BodyPieces == {PieceBullet, PieceWide}

\* C29: in parse_sections a heading phrase listed for a section, followed by
\* non-empty body text, yields that section with that body, even when a
\* shorter heading phrase of another section matches inside it: 'About the
\* role' followed by text yields about_role (not responsibilities), and
\* 'Preferred qualifications' followed by text yields nice_to_have (not
\* qualifications).
C29_HeadingYieldsItsSection ==
    s_pc = "return" =>
        \A h \in HeadingPieces : \A body \in BodyPieces :
            s_text = h.piece \o body =>
                /\ DOMAIN s_sections = {h.section}
                /\ s_sections[h.section] = CleanSection(StripSpace(body))

\* The background scrapes added and not yet ended
RunningTasks == {t \in DOMAIN a_tasks : a_tasks[t].state # "done"}

\* The background scrapes that have neither bound scrape_progress to their
\* completed or failed progress nor ended without doing so
ScrapingTasks == {t \in DOMAIN a_tasks : a_tasks[t].state \notin {"closing", "done"}}

\* A trigger request is handled while scrape_progress status is 'running':
\* it starts no background task and leaves the progress state unchanged
TriggerWhileRunningRefused ==
    (Len(a_responses') = Len(a_responses) + 1 /\ a_progress.status = "running") =>
        /\ a_tasks' = a_tasks
        /\ a_progress' = a_progress
        /\ a_responses'[Len(a_responses')].status = "running"

\* C30: at most one background scrape (jobspy or RSS) is running in the API
\* process at any time: a trigger request to either endpoint that is handled
\* while scrape_progress status is 'running' starts no background task and
\* leaves the progress state unchanged.
C30_OneScrapeAtATime ==
    /\ [](Cardinality(RunningTasks) <= 1)
    /\ [][TriggerWhileRunningRefused]_vars

\* C30, amended: at most one background scrape (jobspy or RSS) at a time is
\* between its start and the assignment of its completed or failed progress
\* or, for a scrape that makes none, its end (a scrape that has made that
\* assignment may still be logging and closing its session when the next
\* one starts): a trigger request to either
\* endpoint that is handled while scrape_progress status is 'running' starts
\* no background task and leaves the progress state unchanged.
C30_OneScrapeBeforeItsFinalProgress ==
    /\ [](Cardinality(ScrapingTasks) <= 1)
    /\ [][TriggerWhileRunningRefused]_vars

\* C30 witness: an RSS trigger was answered 'running' while the jobspy
\* scrape was reporting its one job; that scrape has since bound
\* scrape_progress to its completed progress and is still in its last lines
\* when a third request starts an RSS scrape
C30_Witness ==
    /\ Len(a_responses) = 3
    /\ a_responses[1] = [kind |-> "jobspy", status |-> "started"]
    /\ a_responses[2] = [kind |-> "rss", status |-> "running"]
    /\ a_responses[3] = [kind |-> "rss", status |-> "started"]
    /\ Len(a_tasks) = 2
    /\ a_tasks[1].kind = "jobspy"
    /\ a_tasks[1].state = "closing"
    /\ a_tasks[1].added = 1
    /\ a_table = {"u1"}
    /\ a_tasks[2].kind = "rss"
    /\ a_tasks[2].state = "fetch"
    /\ a_progress = [ProgressStarted("rss") EXCEPT !.step = StepFetching("rss")]

====
